---- MODULE Spec2Model ----
(***************************************************************************)
(* A model of the file-system shims of src/shims/fs.rs: the fd table       *)
(* (FileHandler), the syscall dispatch entries that use it, and the host   *)
(* file system and guest memory they act on.                               *)
(*                                                                         *)
(* Integers of flag words are modelled as the set of their set bits        *)
(* (bit i of the word is in the set), so `&` is \cap and `|` is \cup.      *)
(* Option<T> is a sequence of length 0 (None) or 1 (Some).                 *)
(***************************************************************************)
EXTENDS Integers, Sequences, FiniteSets, TLC

VARIABLES
    handles,    \* FileHandler.handles : fd -> [file, writable]
    descs,      \* host open files (std::fs::File) : id -> [path, pos, read, write, append]
    fsys,       \* host file system : path -> content (absent paths are not in DOMAIN)
    links,      \* host file system : path of a symbolic link -> its target
    mem,        \* guest memory : address -> byte
    statbuf,    \* the guest's stat buffer: the fields last written to it
    last,       \* the last dispatch call: its result, the errno it set (set_last_error)
                \* and the host calls it made
    isolation,  \* the machine's isolation flag
    platform,   \* the target platform
    overflow_checks,    \* the interpreter is built with integer overflow checks
    guest       \* the guest program: its position in its script and the bytes it wrote

vars == <<handles, descs, fsys, links, mem, statbuf, last, isolation, platform,
          overflow_checks, guest>>

(***************************************************************************)
(* Bounds of the model.                                                    *)
(***************************************************************************)
MaxOpen == 3        \* most entries of the fd table (fd-table specification)
MaxOpenIO == 1      \* most entries of the fd table (I/O specification)
MemSize == 2        \* bytes of accessible guest memory
MaxFileLen == 2     \* longest host file

(***************************************************************************)
(* Constants of the program.                                               *)
(***************************************************************************)
MIN_NORMAL_FILE_FD == 3
\* the greatest and the least i32 (the keys of the fd table are i32)
I32_MAX == 2147483647
I32_MIN == -2147483647 - 1

Paths == {"a", "b"}
InitFiles == [p \in {"a"} |-> <<1, 2>>]
\* guest memory before any call
InitMem == [a \in 0..(MemSize - 1) |-> 7]

None == <<>>
Some(x) == <<x>>

Max(a, b) == IF a >= b THEN a ELSE b
Min(a, b) == IF a <= b THEN a ELSE b

(***************************************************************************)
(* Platform constants (libc), as bit sets.                                 *)
(***************************************************************************)
eval_libc_i32(name) ==
    IF platform = "linux"
    THEN CASE name = "O_RDONLY"  -> {}
           [] name = "O_WRONLY"  -> {0}
           [] name = "O_RDWR"    -> {1}
           [] name = "O_CREAT"   -> {6}
           [] name = "O_TRUNC"   -> {9}
           [] name = "O_APPEND"  -> {10}
           [] name = "O_CLOEXEC" -> {19}
    ELSE CASE name = "O_RDONLY"  -> {}
           [] name = "O_WRONLY"  -> {0}
           [] name = "O_RDWR"    -> {1}
           [] name = "O_APPEND"  -> {3}
           [] name = "O_CREAT"   -> {9}
           [] name = "O_TRUNC"   -> {10}
           [] name = "O_CLOEXEC" -> {24}

\* 0b11
AccessBits == {0, 1}

(***************************************************************************)
(* FileHandler                                                             *)
(***************************************************************************)
RECURSIVE SortedSeq(_)
SortedSeq(S) ==
    IF S = {} THEN <<>>
    ELSE LET m == CHOOSE x \in S : \A y \in S : x <= y
         IN  <<m>> \o SortedSeq(S \ {m})

\* self.handles.range(min_fd..): the keys >= min_fd in ascending order
range(h, min_fd) == SortedSeq({k \in DOMAIN h : k >= min_fd})

\* .zip(min_fd..).find_map(|((fd, _fh), counter)| if *fd != counter {Some(counter)} else {None})
RECURSIVE find_map(_, _)
find_map(keys, counter) ==
    IF keys = <<>> THEN None
    ELSE IF Head(keys) # counter THEN Some(counter)
    ELSE IF Tail(keys) = <<>> THEN None
    ELSE find_map(Tail(keys), counter + 1)

\* a + 1 in i32 without overflow checks: it wraps
wrapping_add_one(a) == IF a = I32_MAX THEN I32_MIN ELSE a + 1

\* self.handles.last_entry().map(|entry| entry.key() + 1).unwrap_or(min_fd)
last_entry_plus_one(h, min_fd) ==
    IF DOMAIN h = {} THEN min_fd
    ELSE wrapping_add_one(CHOOSE k \in DOMAIN h : \A j \in DOMAIN h : j <= k)

\* entry.key() + 1 is computed and overflows: no gap was found and the
\* greatest key is the greatest i32
key_plus_one_overflows(h, min_fd0) ==
    LET min_fd == Max(min_fd0, MIN_NORMAL_FILE_FD) IN
    /\ find_map(range(h, min_fd), min_fd) = None
    /\ I32_MAX \in DOMAIN h

(***************************************************************************)
(* Faulty variants of insert_fd_with_min_fd's choice of the fd, which the  *)
(* properties of the fd table tell from new_fd.                            *)
(***************************************************************************)
\* new_fd without the scan for a gap: always one past the greatest key
new_fd_past_last(h, min_fd0) == last_entry_plus_one(h, Max(min_fd0, MIN_NORMAL_FILE_FD))

\* new_fd without the floor of MIN_NORMAL_FILE_FD
new_fd_no_floor(h, min_fd0) ==
    LET min_fd == Max(min_fd0, 0)
        candidate_new_fd == find_map(range(h, min_fd), min_fd)
    IN  IF candidate_new_fd # None THEN candidate_new_fd[1]
        ELSE last_entry_plus_one(h, min_fd)

\* new_fd without the scan: always the floor
new_fd_floor_only(h, min_fd0) == Max(min_fd0, MIN_NORMAL_FILE_FD)

\* the fd insert_fd_with_min_fd chooses
new_fd(h, min_fd0) ==
    LET min_fd == Max(min_fd0, MIN_NORMAL_FILE_FD)
        candidate_new_fd == find_map(range(h, min_fd), min_fd)
    IN  IF candidate_new_fd # None THEN candidate_new_fd[1]
        ELSE last_entry_plus_one(h, min_fd)

\* self.handles.insert(new_fd, file_handle).unwrap_none(); new_fd
\* panic: with overflow checks, entry.key() + 1 overflowed; or unwrap_none
\* found an entry already stored under new_fd
insert_fd_with_min_fd(h, file_handle, min_fd) ==
    LET fd == new_fd(h, min_fd)
        overflow == overflow_checks /\ key_plus_one_overflows(h, min_fd)
    IN  [fd      |-> fd,
         panic   |-> overflow \/ fd \in DOMAIN h,
         msg     |-> IF overflow THEN "attempt to add with overflow" ELSE "unwrap_none",
         handles |-> [k \in DOMAIN h \cup {fd} |-> IF k = fd THEN file_handle ELSE h[k]]]

insert_fd(h, file_handle) == insert_fd_with_min_fd(h, file_handle, 0)

(***************************************************************************)
(* Results of a dispatch call.  kind "ok" is a return to the guest (ret,   *)
(* with the errno the call set in err); "unsup", "ub" and "panic" end the  *)
(* evaluation.  host lists the host calls the dispatch entry made.         *)
(***************************************************************************)
NoCall == [op |-> "none", fd |-> 0, ret |-> 0, kind |-> "ok", msg |-> "",
           host |-> <<>>, err |-> <<>>]

Halted == last.kind # "ok"

Call(op, fd, ret, kind, msg, host, err) ==
    [op |-> op, fd |-> fd, ret |-> ret, kind |-> kind, msg |-> msg, host |-> host,
     err |-> err]

\* the outcome of a call that returns `result` and changes nothing
Same(result) ==
    [last |-> result, handles |-> handles, descs |-> descs, fsys |-> fsys,
     links |-> links, mem |-> mem, statbuf |-> statbuf]

\* the machine takes the outcome of a call
Effect(out) ==
    /\ ~Halted
    /\ last' = out.last
    /\ handles' = out.handles
    /\ descs' = out.descs
    /\ fsys' = out.fsys
    /\ links' = out.links
    /\ mem' = out.mem
    /\ statbuf' = out.statbuf
    /\ UNCHANGED <<isolation, platform, overflow_checks>>

\* a call as an action, made by a guest that follows no script
Apply(out) == Effect(out) /\ UNCHANGED guest

\* throw_unsup_format!(msg) before any effect
throw_unsup(op, fd, msg) == Same(Call(op, fd, 0, "unsup", msg, <<>>, <<>>))

\* this.check_no_isolation(name)?
check_no_isolation == ~isolation

\* this.check_platform(platform, name)?
check_platform(p) == platform = p

\* a handle_not_found that sets EINVAL
handle_not_found_einval(op, fd) == Same(Call(op, fd, -1, "ok", "", <<>>, <<"EINVAL">>))

\* handle_not_found: set_last_error(EBADF); Ok(-1)
handle_not_found(op, fd) == Same(Call(op, fd, -1, "ok", "", <<>>, <<"EBADF">>))

\* try_unwrap_io_result: Ok(v) => v; Err(e) => set_last_error_from_io_error(e), -1
try_unwrap_io_result(result) ==
    IF result.err = "" THEN [ret |-> result.val, err |-> <<>>]
    ELSE [ret |-> -1, err |-> <<result.err>>]

(***************************************************************************)
(* The host: std::fs::OpenOptions::open, File::try_clone, File::sync_all,  *)
(* drop(File).  fault is the error the host raises on its own ("" for      *)
(* none).                                                                  *)
(***************************************************************************)
\* the name of the host file a successful open creates: the first unused one
NewDesc == CHOOSE d \in 1..(Cardinality(DOMAIN descs) + 1) :
               /\ d \notin DOMAIN descs
               /\ \A e \in 1..(d - 1) : e \in DOMAIN descs

\* the path a chain of symbolic links ends at: None when it is longer than `fuel`
RECURSIVE Follow(_, _)
Follow(path, fuel) ==
    IF path \notin DOMAIN links THEN Some(path)
    ELSE IF fuel = 0 THEN None
    ELSE Follow(links[path], fuel - 1)

\* the host's resolution of a path: None for a loop of symbolic links (ELOOP)
Resolve(path) == Follow(path, Cardinality(DOMAIN links))

HostOpen(options, path0, fault) ==
    IF \/ ~options.write /\ ~options.append /\ (options.truncate \/ options.create)
       \/ options.append /\ options.truncate
    THEN [err |-> "EINVAL", fsys |-> fsys, desc |-> <<>>]
    ELSE IF fault # "" THEN [err |-> fault, fsys |-> fsys, desc |-> <<>>]
    ELSE IF Resolve(path0) = None THEN [err |-> "ELOOP", fsys |-> fsys, desc |-> <<>>]
    ELSE
    LET path == Resolve(path0)[1] IN
    IF path \notin DOMAIN fsys /\ ~options.create
    THEN [err |-> "ENOENT", fsys |-> fsys, desc |-> <<>>]
    ELSE [err  |-> "",
          fsys |-> [p \in DOMAIN fsys \cup {path} |->
                       IF p = path /\ (options.truncate \/ p \notin DOMAIN fsys)
                       THEN <<>> ELSE fsys[p]],
          desc |-> <<[path   |-> path,
                      pos    |-> 0,
                      read   |-> options.read,
                      write  |-> options.write \/ options.append,
                      append |-> options.append]>>]

\* drop(file): the host file is closed once no handle of `h` refers to it
drop(h) == [d \in {h[k].file : k \in DOMAIN h} |-> descs[d]]

(***************************************************************************)
(* open                                                                    *)
(***************************************************************************)
\* a mirror that copies every bit of `flag` outside the access mode
mirror_copies_flag(flag, access_mode) == access_mode \cup (flag \ AccessBits)

\* the content of `flag` reproduced from the supported options only
mirror(flag, access_mode) ==
    LET o_append  == eval_libc_i32("O_APPEND")
        o_trunc   == eval_libc_i32("O_TRUNC")
        o_creat   == eval_libc_i32("O_CREAT")
        o_cloexec == eval_libc_i32("O_CLOEXEC")
    IN  access_mode
        \cup (IF flag \cap o_append # {} THEN o_append ELSE {})
        \cup (IF flag \cap o_trunc # {} THEN o_trunc ELSE {})
        \cup (IF flag \cap o_creat # {} THEN o_creat ELSE {})
        \cup (IF flag \cap o_cloexec # {} THEN o_cloexec ELSE {})

\* the outcome of open in the current state
open_outcome(path, flag, fault) ==
    IF ~check_no_isolation THEN throw_unsup("open", 0, "isolation")
    ELSE
    LET o_rdonly == eval_libc_i32("O_RDONLY")
        o_wronly == eval_libc_i32("O_WRONLY")
        o_rdwr   == eval_libc_i32("O_RDWR")
        access_mode == flag \cap AccessBits
    IN
    IF (o_rdonly \cup o_wronly \cup o_rdwr) \ AccessBits # {}
    THEN throw_unsup("open", 0, "Access mode flags on this platform are unsupported")
    ELSE IF access_mode \notin {o_rdonly, o_wronly, o_rdwr}
    THEN throw_unsup("open", 0, "Unsupported access mode")
    ELSE
    LET writable == access_mode # o_rdonly
        o_append  == eval_libc_i32("O_APPEND")
        o_trunc   == eval_libc_i32("O_TRUNC")
        o_creat   == eval_libc_i32("O_CREAT")
        options == [read     |-> access_mode = o_rdonly
                                 \/ (access_mode # o_wronly /\ access_mode = o_rdwr),
                    write    |-> access_mode # o_rdonly
                                 /\ (access_mode = o_wronly \/ access_mode = o_rdwr),
                    append   |-> flag \cap o_append # {},
                    truncate |-> flag \cap o_trunc # {},
                    create   |-> flag \cap o_creat # {}]
    IN
    IF flag # mirror(flag, access_mode) THEN throw_unsup("open", 0, "unsupported flags")
    ELSE
    LET opened == HostOpen(options, path, fault) IN
    IF opened.err # ""
    THEN LET r == try_unwrap_io_result([err |-> opened.err, val |-> 0]) IN
         Same(Call("open", 0, r.ret, "ok", "", <<"open">>, r.err))
    ELSE
    LET d   == NewDesc
        ins == insert_fd(handles, [file |-> d, writable |-> writable])
        r   == try_unwrap_io_result([err |-> "", val |-> ins.fd])
        hosted == [x \in DOMAIN descs \cup {d} |-> IF x = d THEN opened.desc[1] ELSE descs[x]]
    IN  IF ins.panic
        THEN [Same(Call("open", 0, 0, "panic", ins.msg, <<"open">>, <<>>))
                 EXCEPT !.descs = hosted, !.fsys = opened.fsys]
        ELSE [Same(Call("open", 0, r.ret, "ok", "", <<"open">>, r.err))
                 EXCEPT !.handles = ins.handles, !.descs = hosted, !.fsys = opened.fsys]

open(path, flag, fault) == Apply(open_outcome(path, flag, fault))

(***************************************************************************)
(* fcntl                                                                   *)
(***************************************************************************)
F_DUPFD == 0
F_GETFD == 1
FD_CLOEXEC == 1
F_DUPFD_CLOEXEC == IF platform = "linux" THEN 1030 ELSE 67

\* the duplication of fcntl, reached with fd >= 3 and a third argument
fcntl_dup(fd, start, fault) ==
    IF fd \notin DOMAIN handles THEN handle_not_found("fcntl", fd)
    ELSE IF fault # ""
    THEN LET r == try_unwrap_io_result([err |-> fault, val |-> 0]) IN
         Same(Call("fcntl", fd, r.ret, "ok", "F_DUPFD", <<"try_clone">>, r.err))
    ELSE
    LET ins == insert_fd_with_min_fd(handles, handles[fd], start)
        r   == try_unwrap_io_result([err |-> "", val |-> ins.fd])
    IN  IF ins.panic
        THEN Same(Call("fcntl", fd, 0, "panic", ins.msg, <<"try_clone">>, <<>>))
        ELSE [Same(Call("fcntl", fd, r.ret, "ok", "F_DUPFD", <<"try_clone">>, r.err))
                 EXCEPT !.handles = ins.handles]

\* a fcntl that does not know F_DUPFD_CLOEXEC
fcntl_dupfd_only(fd, cmd, start_op, fault) ==
    IF ~check_no_isolation THEN throw_unsup("fcntl", fd, "isolation")
    ELSE IF cmd = F_GETFD
    THEN IF fd \in DOMAIN handles
         THEN Same(Call("fcntl", fd, FD_CLOEXEC, "ok", "F_GETFD", <<>>, <<>>))
         ELSE handle_not_found("fcntl", fd)
    ELSE IF cmd = F_DUPFD
    THEN IF fd < MIN_NORMAL_FILE_FD
         THEN throw_unsup("fcntl", fd, "Duplicating file descriptors for stdin, stdout, or stderr is not supported")
         ELSE IF start_op = None
         THEN throw_unsup("fcntl", fd, "fcntl with command F_DUPFD or F_DUPFD_CLOEXEC requires a third argument")
         ELSE fcntl_dup(fd, start_op[1], fault)
    ELSE throw_unsup("fcntl", fd, "command is not supported for fcntl")

\* a fcntl that looks the fd up before it checks the fd and the third argument
fcntl_dup_looks_up_first(fd, cmd, start_op, fault) ==
    IF ~check_no_isolation THEN throw_unsup("fcntl", fd, "isolation")
    ELSE IF cmd = F_GETFD
    THEN IF fd \in DOMAIN handles
         THEN Same(Call("fcntl", fd, FD_CLOEXEC, "ok", "F_GETFD", <<>>, <<>>))
         ELSE handle_not_found("fcntl", fd)
    ELSE IF cmd = F_DUPFD \/ cmd = F_DUPFD_CLOEXEC
    THEN IF fd \notin DOMAIN handles THEN handle_not_found("fcntl", fd)
         ELSE IF fd < MIN_NORMAL_FILE_FD
         THEN throw_unsup("fcntl", fd, "Duplicating file descriptors for stdin, stdout, or stderr is not supported")
         ELSE fcntl_dup(fd, IF start_op = None THEN 0 ELSE start_op[1], fault)
    ELSE throw_unsup("fcntl", fd, "command is not supported for fcntl")

fcntl_outcome(fd, cmd, start_op, fault) ==
    IF ~check_no_isolation THEN throw_unsup("fcntl", fd, "isolation")
    ELSE IF cmd = F_GETFD
    THEN IF fd \in DOMAIN handles
         THEN Same(Call("fcntl", fd, FD_CLOEXEC, "ok", "F_GETFD", <<>>, <<>>))
         ELSE handle_not_found("fcntl", fd)
    ELSE IF cmd = F_DUPFD \/ cmd = F_DUPFD_CLOEXEC
    THEN IF fd < MIN_NORMAL_FILE_FD
         THEN throw_unsup("fcntl", fd, "Duplicating file descriptors for stdin, stdout, or stderr is not supported")
         ELSE IF start_op = None
         THEN throw_unsup("fcntl", fd, "fcntl with command F_DUPFD or F_DUPFD_CLOEXEC requires a third argument")
         ELSE
         LET start == start_op[1] IN
         IF fd \notin DOMAIN handles THEN handle_not_found("fcntl", fd)
         ELSE IF fault # ""
         THEN LET r == try_unwrap_io_result([err |-> fault, val |-> 0]) IN
              Same(Call("fcntl", fd, r.ret, "ok", "F_DUPFD", <<"try_clone">>, r.err))
         ELSE
         LET writable == handles[fd].writable
             ins == insert_fd_with_min_fd(
                        handles, [file |-> handles[fd].file, writable |-> writable], start)
             r   == try_unwrap_io_result([err |-> "", val |-> ins.fd])
         IN  IF ins.panic
             THEN Same(Call("fcntl", fd, 0, "panic", ins.msg, <<"try_clone">>, <<>>))
             ELSE [Same(Call("fcntl", fd, r.ret, "ok", "F_DUPFD", <<"try_clone">>, r.err))
                      EXCEPT !.handles = ins.handles]
    ELSE throw_unsup("fcntl", fd, "command is not supported for fcntl")

fcntl(fd, cmd, start_op, fault) == Apply(fcntl_outcome(fd, cmd, start_op, fault))

(***************************************************************************)
(* close                                                                   *)
(***************************************************************************)
\* a close that keeps the entry when the sync fails
close_keeps_entry_on_error(fd, fault) ==
    IF ~check_no_isolation THEN throw_unsup("close", fd, "isolation")
    ELSE IF fd \in DOMAIN handles
    THEN LET removed == IF handles[fd].writable /\ fault # "" THEN handles
                        ELSE [k \in DOMAIN handles \ {fd} |-> handles[k]]
             r == try_unwrap_io_result([err |-> fault, val |-> 0])
         IN  [Same(IF handles[fd].writable
                   THEN Call("close", fd, r.ret, "ok", "", <<"sync_all", "drop">>, r.err)
                   ELSE Call("close", fd, 0, "ok", "", <<"drop">>, <<>>))
                 EXCEPT !.handles = removed, !.descs = drop(removed)]
    ELSE handle_not_found("close", fd)

\* a close that removes every entry of the host file it closes
close_removes_duplicates(fd, fault) ==
    IF ~check_no_isolation THEN throw_unsup("close", fd, "isolation")
    ELSE IF fd \in DOMAIN handles
    THEN LET removed == [k \in {j \in DOMAIN handles : handles[j].file # handles[fd].file}
                            |-> handles[k]]
             r == try_unwrap_io_result([err |-> fault, val |-> 0])
         IN  [Same(IF handles[fd].writable
                   THEN Call("close", fd, r.ret, "ok", "", <<"sync_all", "drop">>, r.err)
                   ELSE Call("close", fd, 0, "ok", "", <<"drop">>, <<>>))
                 EXCEPT !.handles = removed, !.descs = drop(removed)]
    ELSE handle_not_found("close", fd)

\* a close that syncs every file, writable or not
close_always_syncs(fd, fault) ==
    IF ~check_no_isolation THEN throw_unsup("close", fd, "isolation")
    ELSE IF fd \in DOMAIN handles
    THEN LET removed == [k \in DOMAIN handles \ {fd} |-> handles[k]]
             r == try_unwrap_io_result([err |-> fault, val |-> 0])
         IN  [Same(Call("close", fd, r.ret, "ok", "", <<"sync_all", "drop">>, r.err))
                 EXCEPT !.handles = removed, !.descs = drop(removed)]
    ELSE handle_not_found("close", fd)

close_outcome(fd, fault) ==
    IF ~check_no_isolation THEN throw_unsup("close", fd, "isolation")
    ELSE IF fd \in DOMAIN handles
    THEN LET removed == [k \in DOMAIN handles \ {fd} |-> handles[k]]
             r == try_unwrap_io_result([err |-> fault, val |-> 0])
         IN  [Same(IF handles[fd].writable
                   THEN Call("close", fd, r.ret, "ok", "", <<"sync_all", "drop">>, r.err)
                   ELSE Call("close", fd, 0, "ok", "", <<"drop">>, <<>>))
                 EXCEPT !.handles = removed, !.descs = drop(removed)]
    ELSE handle_not_found("close", fd)

close(fd, fault) == Apply(close_outcome(fd, fault))

(***************************************************************************)
(* Guest memory: addresses 0 .. MemSize-1 are one allocation.              *)
(***************************************************************************)
ISIZE_MAX == 2147483647

\* a check_ptr_access that looks at the start of the buffer only
check_ptr_access_start_only(buf, count) == 0 <= buf /\ buf <= MemSize

\* this.memory.check_ptr_access(buf, Size::from_bytes(count), Align::from_bytes(1))
check_ptr_access(buf, count) == 0 <= buf /\ buf + count <= MemSize

\* this.memory.write_bytes(buf, bytes): None when the bytes do not fit the allocation
write_bytes(buf, bytes) ==
    IF ~(0 <= buf /\ buf + Len(bytes) <= MemSize) THEN None
    ELSE Some([a \in DOMAIN mem |->
                 IF buf <= a /\ a < buf + Len(bytes) THEN bytes[a - buf + 1] ELSE mem[a]])

\* this.memory.read_bytes(buf, Size::from_bytes(count)): None outside the allocation
read_bytes(buf, count) ==
    IF ~(0 <= buf /\ buf + count <= MemSize) THEN None
    ELSE Some([i \in 1..count |-> mem[buf + i - 1]])

\* an interpreter error for an invalid guest memory access, before any effect
throw_ub(op, fd, msg) == Same(Call(op, fd, 0, "ub", msg, <<>>, <<>>))

(***************************************************************************)
(* The host: File::read, File::write, File::seek.  A read or write may be  *)
(* short: n is the number of bytes the host transfers.                     *)
(***************************************************************************)
\* the bytes a read of at most count bytes may return: any n from 1 up to what is
\* left of the file, or 0 at the end of the file or for count = 0
ReadLens(d, count) ==
    LET avail == Min(count, Max(Len(fsys[descs[d].path]) - descs[d].pos, 0))
    IN  IF avail = 0 THEN {0} ELSE 1..avail

\* the bytes a write of count bytes may take: the file holds MaxFileLen bytes
WriteLens(d, count) ==
    LET at    == IF descs[d].append THEN Len(fsys[descs[d].path]) ELSE descs[d].pos
        avail == Min(count, Max(MaxFileLen - at, 0))
    IN  IF avail = 0 THEN {0} ELSE 1..avail

HostRead(d, bytes, n, fault) ==
    IF ~descs[d].read THEN [err |-> "EBADF", val |-> 0, bytes |-> bytes, pos |-> descs[d].pos]
    ELSE IF fault # "" THEN [err |-> fault, val |-> 0, bytes |-> bytes, pos |-> descs[d].pos]
    ELSE LET data == fsys[descs[d].path]
             pos  == descs[d].pos
         IN  [err   |-> "",
              val   |-> n,
              bytes |-> [i \in 1..Len(bytes) |->
                            IF i <= n /\ pos + i <= Len(data) THEN data[pos + i] ELSE bytes[i]],
              pos   |-> pos + n]

HostWrite(d, bytes, n, fault) ==
    LET data == fsys[descs[d].path]
        at   == IF descs[d].append THEN Len(data) ELSE descs[d].pos
    IN  IF ~descs[d].write THEN [err |-> "EBADF", val |-> 0, data |-> data, pos |-> descs[d].pos]
        ELSE IF fault # "" THEN [err |-> fault, val |-> 0, data |-> data, pos |-> descs[d].pos]
        ELSE IF n = 0 /\ Len(bytes) > 0
        THEN [err |-> "ENOSPC", val |-> 0, data |-> data, pos |-> descs[d].pos]
        ELSE [err  |-> "",
              val  |-> n,
              data |-> [i \in 1..Max(Len(data), at + n) |->
                           IF at < i /\ i <= at + n THEN bytes[i - at]
                           ELSE IF i <= Len(data) THEN data[i] ELSE 0],
              pos  |-> at + n]

(***************************************************************************)
(* read                                                                    *)
(***************************************************************************)
\* a read that takes the entry out of the table (remove in place of get_mut)
read_takes_entry(fd, buf, count0, n, fault) ==
    IF ~check_no_isolation THEN throw_unsup("read", fd, "isolation")
    ELSE IF ~check_ptr_access(buf, count0) THEN throw_ub("read", fd, "check_ptr_access")
    ELSE
    LET count == Min(Min(count0, ISIZE_MAX), ISIZE_MAX) IN
    IF fd \in DOMAIN handles
    THEN LET d       == handles[fd].file
             bytes   == [i \in 1..count |-> 0]
             result  == HostRead(d, bytes, n, fault)
             written == write_bytes(buf, result.bytes)
             moved   == [descs EXCEPT ![d].pos = result.pos]
             taken   == [k \in DOMAIN handles \ {fd} |-> handles[k]]
         IN  IF result.err = ""
             THEN IF written = None
                  THEN [Same(Call("read", fd, 0, "ub", "write_bytes", <<"read">>, <<>>))
                           EXCEPT !.descs = moved]
                  ELSE [Same(Call("read", fd, result.val, "ok", "", <<"read">>, <<>>))
                           EXCEPT !.descs = moved, !.mem = written[1], !.handles = taken]
             ELSE [Same(Call("read", fd, -1, "ok", "", <<"read">>, <<result.err>>))
                      EXCEPT !.handles = taken]
    ELSE handle_not_found("read", fd)

read_outcome(fd, buf, count0, n, fault) ==
    IF ~check_no_isolation THEN throw_unsup("read", fd, "isolation")
    ELSE IF ~check_ptr_access(buf, count0) THEN throw_ub("read", fd, "check_ptr_access")
    ELSE
    LET count == Min(Min(count0, ISIZE_MAX), ISIZE_MAX) IN
    IF fd \in DOMAIN handles
    THEN LET d       == handles[fd].file
             bytes   == [i \in 1..count |-> 0]
             result  == HostRead(d, bytes, n, fault)
             written == write_bytes(buf, result.bytes)
             moved   == [descs EXCEPT ![d].pos = result.pos]
         IN  IF result.err = ""
             THEN IF written = None
                  THEN [Same(Call("read", fd, 0, "ub", "write_bytes", <<"read">>, <<>>))
                           EXCEPT !.descs = moved]
                  ELSE [Same(Call("read", fd, result.val, "ok", "", <<"read">>, <<>>))
                           EXCEPT !.descs = moved, !.mem = written[1]]
             ELSE Same(Call("read", fd, -1, "ok", "", <<"read">>, <<result.err>>))
    ELSE handle_not_found("read", fd)

read(fd, buf, count0, n, fault) == Apply(read_outcome(fd, buf, count0, n, fault))

(***************************************************************************)
(* write                                                                   *)
(***************************************************************************)
write_outcome(fd, buf, count0, n, fault) ==
    IF ~check_no_isolation THEN throw_unsup("write", fd, "isolation")
    ELSE IF ~check_ptr_access(buf, count0) THEN throw_ub("write", fd, "check_ptr_access")
    ELSE
    LET count == Min(Min(count0, ISIZE_MAX), ISIZE_MAX) IN
    IF fd \in DOMAIN handles
    THEN IF read_bytes(buf, count) = None THEN throw_ub("write", fd, "read_bytes")
         ELSE
         LET d      == handles[fd].file
             bytes  == read_bytes(buf, count)[1]
             result == HostWrite(d, bytes, n, fault)
             r      == try_unwrap_io_result(result)
         IN  [Same(Call("write", fd, r.ret, "ok", "", <<"write">>, r.err))
                 EXCEPT !.fsys = [fsys EXCEPT ![descs[d].path] = result.data],
                        !.descs = [descs EXCEPT ![d].pos = result.pos]]
    ELSE handle_not_found("write", fd)

write(fd, buf, count0, n, fault) == Apply(write_outcome(fd, buf, count0, n, fault))

(***************************************************************************)
(* lseek64                                                                 *)
(***************************************************************************)
SEEK_SET == 0
SEEK_CUR == 1
SEEK_END == 2

\* file.seek(seek_from): the new position, or EINVAL for a negative one
HostSeek(d, seek_from) ==
    LET base == CASE seek_from.from = "Start"   -> 0
                  [] seek_from.from = "Current" -> descs[d].pos
                  [] seek_from.from = "End"     -> Len(fsys[descs[d].path])
        new  == base + seek_from.offset
    IN  IF new < 0 THEN [err |-> "EINVAL", val |-> 0, pos |-> descs[d].pos]
        ELSE [err |-> "", val |-> new, pos |-> new]

\* an lseek64 that looks the fd up before it checks whence
lseek64_looks_up_first(fd, offset, whence) ==
    IF ~check_no_isolation THEN throw_unsup("lseek64", fd, "isolation")
    ELSE IF fd \notin DOMAIN handles THEN handle_not_found("lseek64", fd)
    ELSE IF whence \notin {SEEK_SET, SEEK_CUR, SEEK_END}
    THEN Same(Call("lseek64", fd, -1, "ok", "", <<>>, <<"EINVAL">>))
    ELSE
    LET seek_from == IF whence = SEEK_SET THEN [from |-> "Start", offset |-> offset]
                     ELSE IF whence = SEEK_CUR THEN [from |-> "Current", offset |-> offset]
                     ELSE [from |-> "End", offset |-> offset]
        d      == handles[fd].file
        result == HostSeek(d, seek_from)
        r      == try_unwrap_io_result(result)
    IN  [Same(Call("lseek64", fd, r.ret, "ok", "", <<"seek">>, r.err))
            EXCEPT !.descs = [descs EXCEPT ![d].pos = result.pos]]

lseek64_outcome(fd, offset, whence) ==
    IF ~check_no_isolation THEN throw_unsup("lseek64", fd, "isolation")
    ELSE IF whence \notin {SEEK_SET, SEEK_CUR, SEEK_END}
    THEN Same(Call("lseek64", fd, -1, "ok", "", <<>>, <<"EINVAL">>))
    ELSE
    LET seek_from == IF whence = SEEK_SET THEN [from |-> "Start", offset |-> offset]
                     ELSE IF whence = SEEK_CUR THEN [from |-> "Current", offset |-> offset]
                     ELSE [from |-> "End", offset |-> offset]
    IN
    IF fd \in DOMAIN handles
    THEN LET d      == handles[fd].file
             result == HostSeek(d, seek_from)
             r      == try_unwrap_io_result(result)
         IN  [Same(Call("lseek64", fd, r.ret, "ok", "", <<"seek">>, r.err))
                 EXCEPT !.descs = [descs EXCEPT ![d].pos = result.pos]]
    ELSE handle_not_found("lseek64", fd)

lseek64(fd, offset, whence) == Apply(lseek64_outcome(fd, offset, whence))

(***************************************************************************)
(* FileMetadata.  The host answers a metadata query with an error or with  *)
(* the file type, the length and, for each of the three timestamps, either *)
(* no value or a time (sec < 0: before the unix epoch).                    *)
(***************************************************************************)
S_IFREG == 32768
S_IFDIR == 16384
S_IFLNK == 40960

NoTime == [ok |-> FALSE, sec |-> 0, nsec |-> 0]
Time(sec, nsec) == [ok |-> TRUE, sec |-> sec, nsec |-> nsec]

\* extract_sec_and_nsec: None when the host has no such time; fails before the epoch
extract_sec_and_nsec(time) ==
    IF ~time.ok THEN [fail |-> FALSE, val |-> None]
    ELSE IF time.sec < 0 THEN [fail |-> TRUE, val |-> None]
    ELSE [fail |-> FALSE, val |-> Some(<<time.sec, time.nsec>>)]

\* a from_meta that fails the evaluation on a host error
from_meta_fails_on_error(metadata) ==
    IF metadata.err # ""
    THEN [fail |-> TRUE, err |-> <<>>, val |-> None]
    ELSE
    LET mode == IF metadata.ftype = "file" THEN S_IFREG
                ELSE IF metadata.ftype = "dir" THEN S_IFDIR
                ELSE S_IFLNK
        created  == extract_sec_and_nsec(metadata.created)
        accessed == extract_sec_and_nsec(metadata.accessed)
        modified == extract_sec_and_nsec(metadata.modified)
    IN  IF created.fail \/ accessed.fail \/ modified.fail
        THEN [fail |-> TRUE, err |-> <<>>, val |-> None]
        ELSE [fail |-> FALSE, err |-> <<>>,
              val  |-> Some([mode     |-> mode,
                             size     |-> metadata.len,
                             created  |-> created.val,
                             accessed |-> accessed.val,
                             modified |-> modified.val])]

\* FileMetadata::from_meta: Ok(None) with errno set on a host error, an interpreter
\* error for a time before the epoch, otherwise Ok(Some(FileMetadata))
from_meta(metadata) ==
    IF metadata.err # ""
    THEN [fail |-> FALSE, err |-> <<metadata.err>>, val |-> None]
    ELSE
    LET mode == IF metadata.ftype = "file" THEN S_IFREG
                ELSE IF metadata.ftype = "dir" THEN S_IFDIR
                ELSE S_IFLNK
        created  == extract_sec_and_nsec(metadata.created)
        accessed == extract_sec_and_nsec(metadata.accessed)
        modified == extract_sec_and_nsec(metadata.modified)
    IN  IF created.fail \/ accessed.fail \/ modified.fail
        THEN [fail |-> TRUE, err |-> <<>>, val |-> None]
        ELSE [fail |-> FALSE, err |-> <<>>,
              val  |-> Some([mode     |-> mode,
                             size     |-> metadata.len,
                             created  |-> created.val,
                             accessed |-> accessed.val,
                             modified |-> modified.val])]

\* file.metadata() of an open host file; times is what the host has of the timestamps
HostFileMetadata(d, fault, times) ==
    [err      |-> fault,
     ftype    |-> "file",
     len      |-> Len(fsys[descs[d].path]),
     created  |-> times.created,
     accessed |-> times.accessed,
     modified |-> times.modified]

\* FileMetadata::from_fd: EBADF and Ok(None) for an fd that is not in the table
from_fd(fd, fault, times) ==
    IF fd \notin DOMAIN handles
    THEN [fail |-> FALSE, err |-> <<"EBADF">>, val |-> None, host |-> <<>>]
    ELSE LET m == from_meta(HostFileMetadata(handles[fd].file, fault, times))
         IN  [fail |-> m.fail, err |-> m.err, val |-> m.val, host |-> <<"metadata">>]

unwrap_or(option, default) == IF option = None THEN default ELSE option[1]

\* the fields macos_stat_write_buf writes, in order (a 64-bit target: 32 bits of
\* padding follow st_rdev)
macos_stat_write_buf(metadata) ==
    LET access   == unwrap_or(metadata.accessed, <<0, 0>>)
        created  == unwrap_or(metadata.created, <<0, 0>>)
        modified == unwrap_or(metadata.modified, <<0, 0>>)
    IN  <<0,                \* st_dev
          metadata.mode,    \* st_mode
          0,                \* st_nlink
          0,                \* st_ino
          0,                \* st_uid
          0,                \* st_gid
          0,                \* st_rdev
          0,                \* padding
          access[1],        \* st_atime
          access[2],        \* st_atime_nsec
          modified[1],      \* st_mtime
          modified[2],      \* st_mtime_nsec
          0,                \* st_ctime
          0,                \* st_ctime_nsec
          created[1],       \* st_birthtime
          created[2],       \* st_birthtime_nsec
          metadata.size,    \* st_size
          0,                \* st_blocks
          0,                \* st_blksize
          0,                \* st_flags
          0>>               \* st_gen

(***************************************************************************)
(* macos_fstat.  buf_ok: buf_op points to a guest stat struct.             *)
(***************************************************************************)
macos_fstat_outcome(fd, buf_ok, fault, times) ==
    IF ~check_no_isolation THEN throw_unsup("fstat", fd, "isolation")
    ELSE IF ~check_platform("macos") THEN throw_unsup("fstat", fd, "platform")
    ELSE
    LET metadata == from_fd(fd, fault, times) IN
    IF metadata.fail
    THEN Same(Call("fstat", fd, 0, "unsup", "time before the unix epoch", metadata.host, <<>>))
    ELSE IF metadata.val = None
    THEN Same(Call("fstat", fd, -1, "ok", "", metadata.host, metadata.err))
    ELSE IF ~buf_ok
    THEN Same(Call("fstat", fd, 0, "ub", "deref_operand", metadata.host, <<>>))
    ELSE [Same(Call("fstat", fd, 0, "ok", "", metadata.host, <<>>))
             EXCEPT !.statbuf = macos_stat_write_buf(metadata.val[1])]

macos_fstat(fd, buf_ok, fault, times) == Apply(macos_fstat_outcome(fd, buf_ok, fault, times))

(***************************************************************************)
(* The host: std::fs::remove_file, std::os::unix::fs::symlink,             *)
(* std::fs::rename, std::fs::metadata and std::fs::symlink_metadata.  A    *)
(* path is "" (the empty string), "/" (absolute: the root directory) or a  *)
(* name relative to the working directory.                                 *)
(***************************************************************************)
Exists(path) == path \in DOMAIN fsys \cup DOMAIN links

\* `f` without the key `k`
Without(f, k) == [p \in DOMAIN f \ {k} |-> f[p]]

HostRemoveFile(path, fault) ==
    IF fault # "" THEN [err |-> fault, fsys |-> fsys, links |-> links]
    ELSE IF path = "/" THEN [err |-> "EISDIR", fsys |-> fsys, links |-> links]
    ELSE IF path \in DOMAIN links
    THEN [err |-> "", fsys |-> fsys, links |-> Without(links, path)]
    ELSE IF path \in DOMAIN fsys
    THEN [err |-> "", fsys |-> Without(fsys, path), links |-> links]
    ELSE [err |-> "ENOENT", fsys |-> fsys, links |-> links]

HostSymlink(target, linkpath, fault) ==
    IF fault # "" THEN [err |-> fault, links |-> links]
    ELSE IF target = "" \/ linkpath = "" THEN [err |-> "ENOENT", links |-> links]
    ELSE IF linkpath = "/" \/ Exists(linkpath) THEN [err |-> "EEXIST", links |-> links]
    ELSE [err   |-> "",
          links |-> [p \in DOMAIN links \cup {linkpath} |->
                        IF p = linkpath THEN target ELSE links[p]]]

\* rename moves the file or the link itself; an open host file keeps its file
HostRename(oldpath, newpath, fault) ==
    LET same == [err |-> "", fsys |-> fsys, links |-> links, descs |-> descs] IN
    IF fault # "" THEN [same EXCEPT !.err = fault]
    ELSE IF oldpath = "" \/ newpath = "" THEN [same EXCEPT !.err = "ENOENT"]
    ELSE IF oldpath = "/" \/ newpath = "/" THEN [same EXCEPT !.err = "EBUSY"]
    ELSE IF ~Exists(oldpath) THEN [same EXCEPT !.err = "ENOENT"]
    ELSE IF oldpath = newpath THEN same
    ELSE IF oldpath \in DOMAIN links
    THEN [err   |-> "",
          fsys  |-> Without(fsys, newpath),
          links |-> [p \in (DOMAIN links \ {oldpath}) \cup {newpath} |->
                        IF p = newpath THEN links[oldpath] ELSE links[p]],
          descs |-> descs]
    ELSE [err   |-> "",
          fsys  |-> [p \in (DOMAIN fsys \ {oldpath}) \cup {newpath} |->
                        IF p = newpath THEN fsys[oldpath] ELSE fsys[p]],
          links |-> Without(links, newpath),
          descs |-> [d \in DOMAIN descs |->
                        IF descs[d].path = oldpath
                        THEN [descs[d] EXCEPT !.path = newpath] ELSE descs[d]]]

\* the metadata of a path: of what it resolves to, or of the link itself.
\* Every name of the model has one character, which is the size of a link.
HostPathMetadata(path, follow_symlink, fault, times) ==
    LET resolved == IF follow_symlink THEN Resolve(path) ELSE Some(path)
        meta(ftype, len) ==
            [err      |-> "",
             ftype    |-> ftype,
             len      |-> len,
             created  |-> times.created,
             accessed |-> times.accessed,
             modified |-> times.modified]
    IN  IF fault # "" THEN [meta("file", 0) EXCEPT !.err = fault]
        ELSE IF resolved = None THEN [meta("file", 0) EXCEPT !.err = "ELOOP"]
        ELSE IF resolved[1] = "/" THEN meta("dir", 0)
        ELSE IF resolved[1] \in DOMAIN links THEN meta("symlink", 1)
        ELSE IF resolved[1] \in DOMAIN fsys THEN meta("file", Len(fsys[resolved[1]]))
        ELSE [meta("file", 0) EXCEPT !.err = "ENOENT"]

(***************************************************************************)
(* unlink, symlink, rename.  A path operand is None for a null pointer and *)
(* Some(path) for a pointer to a C string.                                 *)
(***************************************************************************)
\* read_os_str_from_c_str of a null pointer: an interpreter error
read_os_str_from_c_str(path_op) == path_op # None

\* an unlink that does not check the isolation
unlink_without_isolation_check(path_op, fault) ==
    IF ~read_os_str_from_c_str(path_op) THEN throw_ub("unlink", 0, "null pointer")
    ELSE
    LET removed == HostRemoveFile(path_op[1], fault)
        r == try_unwrap_io_result([err |-> removed.err, val |-> 0])
    IN  [Same(Call("unlink", 0, r.ret, "ok", "", <<"remove_file">>, r.err))
            EXCEPT !.fsys = removed.fsys, !.links = removed.links]

unlink_outcome(path_op, fault) ==
    IF ~check_no_isolation THEN throw_unsup("unlink", 0, "isolation")
    ELSE IF ~read_os_str_from_c_str(path_op) THEN throw_ub("unlink", 0, "null pointer")
    ELSE
    LET removed == HostRemoveFile(path_op[1], fault)
        r == try_unwrap_io_result([err |-> removed.err, val |-> 0])
    IN  [Same(Call("unlink", 0, r.ret, "ok", "", <<"remove_file">>, r.err))
            EXCEPT !.fsys = removed.fsys, !.links = removed.links]

unlink(path_op, fault) == Apply(unlink_outcome(path_op, fault))

symlink_outcome(target_op, linkpath_op, fault) ==
    IF ~check_no_isolation THEN throw_unsup("symlink", 0, "isolation")
    ELSE IF ~read_os_str_from_c_str(target_op) THEN throw_ub("symlink", 0, "null pointer")
    ELSE IF ~read_os_str_from_c_str(linkpath_op) THEN throw_ub("symlink", 0, "null pointer")
    ELSE
    LET created == HostSymlink(target_op[1], linkpath_op[1], fault)
        r == try_unwrap_io_result([err |-> created.err, val |-> 0])
    IN  [Same(Call("symlink", 0, r.ret, "ok", "", <<"symlink">>, r.err))
            EXCEPT !.links = created.links]

symlink(target_op, linkpath_op, fault) == Apply(symlink_outcome(target_op, linkpath_op, fault))

\* a rename that hands the host the two paths in the wrong order
rename_swaps_paths(oldpath_op, newpath_op, fault) ==
    IF ~check_no_isolation THEN throw_unsup("rename", 0, "isolation")
    ELSE IF oldpath_op = None \/ newpath_op = None
    THEN Same(Call("rename", 0, -1, "ok", "", <<>>, <<"EFAULT">>))
    ELSE
    LET renamed == HostRename(newpath_op[1], oldpath_op[1], fault)
        r == try_unwrap_io_result([err |-> renamed.err, val |-> 0])
    IN  [Same(Call("rename", 0, r.ret, "ok", "", <<"rename">>, r.err))
            EXCEPT !.fsys = renamed.fsys, !.links = renamed.links, !.descs = renamed.descs]

rename_outcome(oldpath_op, newpath_op, fault) ==
    IF ~check_no_isolation THEN throw_unsup("rename", 0, "isolation")
    ELSE IF oldpath_op = None \/ newpath_op = None
    THEN Same(Call("rename", 0, -1, "ok", "", <<>>, <<"EFAULT">>))
    ELSE
    LET renamed == HostRename(oldpath_op[1], newpath_op[1], fault)
        r == try_unwrap_io_result([err |-> renamed.err, val |-> 0])
    IN  [Same(Call("rename", 0, r.ret, "ok", "", <<"rename">>, r.err))
            EXCEPT !.fsys = renamed.fsys, !.links = renamed.links, !.descs = renamed.descs]

rename(oldpath_op, newpath_op, fault) == Apply(rename_outcome(oldpath_op, newpath_op, fault))

(***************************************************************************)
(* stat and lstat                                                          *)
(***************************************************************************)
\* FileMetadata::from_path
from_path(path, follow_symlink, fault, times) ==
    LET m == from_meta(HostPathMetadata(path, follow_symlink, fault, times))
    IN  [fail |-> m.fail, err |-> m.err, val |-> m.val,
         host |-> IF follow_symlink THEN <<"fs::metadata">> ELSE <<"fs::symlink_metadata">>]

macos_stat_or_lstat(op, follow_symlink, path_op, buf_ok, fault, times) ==
    IF ~read_os_str_from_c_str(path_op) THEN throw_ub(op, 0, "null pointer")
    ELSE
    LET metadata == from_path(path_op[1], follow_symlink, fault, times) IN
    IF metadata.fail
    THEN Same(Call(op, 0, 0, "unsup", "time before the unix epoch", metadata.host, <<>>))
    ELSE IF metadata.val = None
    THEN Same(Call(op, 0, -1, "ok", "", metadata.host, metadata.err))
    ELSE IF ~buf_ok
    THEN Same(Call(op, 0, 0, "ub", "deref_operand", metadata.host, <<>>))
    ELSE [Same(Call(op, 0, 0, "ok", "", metadata.host, <<>>))
             EXCEPT !.statbuf = macos_stat_write_buf(metadata.val[1])]

macos_stat_outcome(path_op, buf_ok, fault, times) ==
    IF ~check_no_isolation THEN throw_unsup("stat", 0, "isolation")
    ELSE IF ~check_platform("macos") THEN throw_unsup("stat", 0, "platform")
    ELSE macos_stat_or_lstat("stat", TRUE, path_op, buf_ok, fault, times)

macos_stat(path_op, buf_ok, fault, times) == Apply(macos_stat_outcome(path_op, buf_ok, fault, times))

macos_lstat_outcome(path_op, buf_ok, fault, times) ==
    IF ~check_no_isolation THEN throw_unsup("lstat", 0, "isolation")
    ELSE IF ~check_platform("macos") THEN throw_unsup("lstat", 0, "platform")
    ELSE macos_stat_or_lstat("lstat", FALSE, path_op, buf_ok, fault, times)

macos_lstat(path_op, buf_ok, fault, times) == Apply(macos_lstat_outcome(path_op, buf_ok, fault, times))

(***************************************************************************)
(* statx.  flags and the masks are bit sets; statxbuf is "null", "valid"   *)
(* (a pointer to a guest statx struct) or "dangling".                      *)
(***************************************************************************)
AT_FDCWD == -100
AT_SYMLINK_NOFOLLOW == {8}
AT_EMPTY_PATH == {12}
STATX_TYPE == {0}
STATX_ATIME == {5}
STATX_MTIME == {6}
STATX_SIZE == {9}
STATX_BTIME == {11}

is_absolute(path) == path = "/"

\* a mask that reports every time, supplied or not
statx_mask_all_times(metadata) ==
    STATX_TYPE \cup STATX_SIZE \cup STATX_ATIME \cup STATX_BTIME \cup STATX_MTIME

\* the mask statx reports: what the metadata holds
statx_mask(metadata) ==
    STATX_TYPE \cup STATX_SIZE
        \cup (IF metadata.accessed # None THEN STATX_ATIME ELSE {})
        \cup (IF metadata.created # None THEN STATX_BTIME ELSE {})
        \cup (IF metadata.modified # None THEN STATX_MTIME ELSE {})

\* a statx that reports the block size of the host
statx_write_buf_blksize(metadata) ==
    LET access   == unwrap_or(metadata.accessed, <<0, 0>>)
        created  == unwrap_or(metadata.created, <<0, 0>>)
        modified == unwrap_or(metadata.modified, <<0, 0>>)
    IN  <<statx_mask(metadata),  \* stx_mask
          4096,                  \* stx_blksize
          0,                     \* stx_attributes
          0,                     \* stx_nlink
          0,                     \* stx_uid
          0,                     \* stx_gid
          metadata.mode,         \* stx_mode
          0,                     \* statx padding
          0,                     \* stx_ino
          metadata.size,         \* stx_size
          0,                     \* stx_blocks
          0,                     \* stx_attributes
          access[1],             \* stx_atime.tv_sec
          access[2],             \* stx_atime.tv_nsec
          0,                     \* statx_timestamp padding
          created[1],            \* stx_btime.tv_sec
          created[2],            \* stx_btime.tv_nsec
          0,                     \* statx_timestamp padding
          0,                     \* stx_ctime.tv_sec
          0,                     \* stx_ctime.tv_nsec
          0,                     \* statx_timestamp padding
          modified[1],           \* stx_mtime.tv_sec
          modified[2],           \* stx_mtime.tv_nsec
          0,                     \* statx_timestamp padding
          0,                     \* stx_rdev_major
          0,                     \* stx_rdev_minor
          0,                     \* stx_dev_major
          0>>                    \* stx_dev_minor

\* the immediates statx writes to statxbuf, in order
statx_write_buf(metadata) ==
    LET access   == unwrap_or(metadata.accessed, <<0, 0>>)
        created  == unwrap_or(metadata.created, <<0, 0>>)
        modified == unwrap_or(metadata.modified, <<0, 0>>)
    IN  <<statx_mask(metadata),  \* stx_mask
          0,                     \* stx_blksize
          0,                     \* stx_attributes
          0,                     \* stx_nlink
          0,                     \* stx_uid
          0,                     \* stx_gid
          metadata.mode,         \* stx_mode
          0,                     \* statx padding
          0,                     \* stx_ino
          metadata.size,         \* stx_size
          0,                     \* stx_blocks
          0,                     \* stx_attributes
          access[1],             \* stx_atime.tv_sec
          access[2],             \* stx_atime.tv_nsec
          0,                     \* statx_timestamp padding
          created[1],            \* stx_btime.tv_sec
          created[2],            \* stx_btime.tv_nsec
          0,                     \* statx_timestamp padding
          0,                     \* stx_ctime.tv_sec
          0,                     \* stx_ctime.tv_nsec
          0,                     \* statx_timestamp padding
          modified[1],           \* stx_mtime.tv_sec
          modified[2],           \* stx_mtime.tv_nsec
          0,                     \* statx_timestamp padding
          0,                     \* stx_rdev_major
          0,                     \* stx_rdev_minor
          0,                     \* stx_dev_major
          0>>                    \* stx_dev_minor

\* a lookup that clears the guest's statx struct before it fails
statx_lookup_clears_buf(dirfd, path, flags, statxbuf, fault, times) ==
    LET empty_path_flag == flags \cap AT_EMPTY_PATH # {}
        follow_symlink  == flags \cap AT_SYMLINK_NOFOLLOW = {}
        metadata == IF path = "" /\ empty_path_flag
                    THEN from_fd(dirfd, fault, times)
                    ELSE from_path(path, follow_symlink, fault, times)
    IN  IF metadata.fail
        THEN Same(Call("statx", dirfd, 0, "unsup", "time before the unix epoch", metadata.host, <<>>))
        ELSE IF metadata.val = None
        THEN [Same(Call("statx", dirfd, -1, "ok", "", metadata.host, metadata.err))
                 EXCEPT !.statbuf = [i \in 1..28 |-> 0]]
        ELSE IF statxbuf # "valid"
        THEN Same(Call("statx", dirfd, 0, "ub", "write_packed_immediates", metadata.host, <<>>))
        ELSE [Same(Call("statx", dirfd, 0, "ok", "", metadata.host, <<>>))
                 EXCEPT !.statbuf = statx_write_buf(metadata.val[1])]

\* the metadata lookup and the write of statx, after its argument checks
statx_lookup(dirfd, path, flags, statxbuf, fault, times) ==
    LET empty_path_flag == flags \cap AT_EMPTY_PATH # {}
        follow_symlink  == flags \cap AT_SYMLINK_NOFOLLOW = {}
        metadata == IF path = "" /\ empty_path_flag
                    THEN from_fd(dirfd, fault, times)
                    ELSE from_path(path, follow_symlink, fault, times)
    IN  IF metadata.fail
        THEN Same(Call("statx", dirfd, 0, "unsup", "time before the unix epoch", metadata.host, <<>>))
        ELSE IF metadata.val = None
        THEN Same(Call("statx", dirfd, -1, "ok", "", metadata.host, metadata.err))
        ELSE IF statxbuf # "valid"
        THEN Same(Call("statx", dirfd, 0, "ub", "write_packed_immediates", metadata.host, <<>>))
        ELSE [Same(Call("statx", dirfd, 0, "ok", "", metadata.host, <<>>))
                 EXCEPT !.statbuf = statx_write_buf(metadata.val[1])]

\* the test of the addressing modes statx supports
statx_supported(dirfd, path, flags) ==
    \/ is_absolute(path)
    \/ dirfd = AT_FDCWD
    \/ (path = "" /\ flags \cap AT_EMPTY_PATH # {})

\* a statx that tests the null pointers after the addressing mode
linux_statx_null_check_late(dirfd, pathname_op, flags, mask, statxbuf, fault, times) ==
    IF ~check_no_isolation THEN throw_unsup("statx", dirfd, "isolation")
    ELSE IF ~check_platform("linux") THEN throw_unsup("statx", dirfd, "platform")
    ELSE IF ~statx_supported(dirfd, unwrap_or(pathname_op, ""), flags)
    THEN throw_unsup("statx", dirfd, "Using statx is only supported with absolute paths, relative paths with AT_FDCWD, and empty paths with AT_EMPTY_PATH")
    ELSE IF statxbuf = "null" \/ pathname_op = None
    THEN Same(Call("statx", dirfd, -1, "ok", "", <<>>, <<"EFAULT">>))
    ELSE statx_lookup(dirfd, pathname_op[1], flags, statxbuf, fault, times)

\* a statx that takes every addressing mode
linux_statx_any_dirfd(dirfd, pathname_op, flags, mask, statxbuf, fault, times) ==
    IF ~check_no_isolation THEN throw_unsup("statx", dirfd, "isolation")
    ELSE IF ~check_platform("linux") THEN throw_unsup("statx", dirfd, "platform")
    ELSE IF statxbuf = "null" \/ pathname_op = None
    THEN Same(Call("statx", dirfd, -1, "ok", "", <<>>, <<"EFAULT">>))
    ELSE statx_lookup(dirfd, pathname_op[1], flags, statxbuf, fault, times)

linux_statx_outcome(dirfd, pathname_op, flags, mask, statxbuf, fault, times) ==
    IF ~check_no_isolation THEN throw_unsup("statx", dirfd, "isolation")
    ELSE IF ~check_platform("linux") THEN throw_unsup("statx", dirfd, "platform")
    ELSE IF statxbuf = "null" \/ pathname_op = None
    THEN Same(Call("statx", dirfd, -1, "ok", "", <<>>, <<"EFAULT">>))
    ELSE IF ~statx_supported(dirfd, pathname_op[1], flags)
    THEN throw_unsup("statx", dirfd, "Using statx is only supported with absolute paths, relative paths with AT_FDCWD, and empty paths with AT_EMPTY_PATH")
    ELSE statx_lookup(dirfd, pathname_op[1], flags, statxbuf, fault, times)

linux_statx(dirfd, pathname_op, flags, mask, statxbuf, fault, times) ==
    Apply(linux_statx_outcome(dirfd, pathname_op, flags, mask, statxbuf, fault, times))

(***************************************************************************)
(* Inputs of the dispatch calls.                                           *)
(***************************************************************************)
FlagBits == {0, 1, 3, 6, 9, 10, 19, 24}
OpenFlags == SUBSET FlagBits
\* the greatest fd a table of at most n entries holds in the model
MaxFd(n) == MIN_NORMAL_FILE_FD + n - 1
FdVals(n) == {2} \cup (MIN_NORMAL_FILE_FD .. MaxFd(n))
CmdVals == {F_DUPFD, F_GETFD, 2, F_DUPFD_CLOEXEC}
DupCmds == {F_DUPFD, F_DUPFD_CLOEXEC}
\* read-only, write-only, read-write, no access mode, an unsupported bit
TableFlags == {{}, {0}, {0, 1}, {1, 3}}
StartVals == {-1, 4, 10}
StartOps == {None} \cup {Some(s) : s \in StartVals}

\* a guest that follows no script
NoScript == [pc |-> "any", B |-> <<>>]

\* the keys of the tables that start empty stay far from I32_MAX: the build
\* makes no difference to them
Config(iso, plats) ==
    /\ isolation \in iso
    /\ platform \in plats
    /\ overflow_checks = TRUE
    /\ guest = NoScript

Fresh ==
    /\ handles = <<>>
    /\ descs = <<>>
    /\ fsys = InitFiles
    /\ links = <<>>
    /\ mem = InitMem
    /\ statbuf = <<>>
    /\ last = NoCall

Init == Fresh /\ Config({FALSE}, {"linux"})

(***************************************************************************)
(* The fd-table specification: open, fcntl and close on a table of at most *)
(* MaxOpen entries.                                                        *)
(***************************************************************************)
\* the step leaves the table within the model's bounds
Bounded(n) ==
    /\ Cardinality(DOMAIN handles') <= n
    /\ \A k \in DOMAIN handles' : k <= MaxFd(n)

\* the faults of the host call a dispatch entry makes, when it makes one
Faults(calls_host, fault) == IF calls_host THEN {"", fault} ELSE {""}

Open ==
    \E path \in {"a"}, flag \in TableFlags, fault \in {"", "EIO"} :
        /\ open(path, flag, fault)
        /\ Bounded(MaxOpen)

Fcntl ==
    \E fd \in FdVals(MaxOpen), cmd \in CmdVals :
        \E start_op \in IF cmd \in DupCmds THEN StartOps ELSE {None} :
            \E fault \in Faults(cmd \in DupCmds /\ start_op # None /\ fd \in DOMAIN handles, "EIO") :
                /\ fcntl(fd, cmd, start_op, fault)
                /\ Bounded(MaxOpen)

Close ==
    \E fd \in FdVals(MaxOpen) :
        \E fault \in Faults(fd \in DOMAIN handles /\ handles[fd].writable, "EIO") :
            close(fd, fault)

Next == Open \/ Fcntl \/ Close

Spec == Init /\ [][Next]_vars


(***************************************************************************)
(* Properties of the fd table (specification Spec).                        *)
(***************************************************************************)
\* the smallest integer >= floor that is not a key of h
LowestFree(h, floor) ==
    CHOOSE n \in floor..(floor + Cardinality(DOMAIN h)) :
        /\ n \notin DOMAIN h
        /\ \A m \in floor..(n - 1) : m \in DOMAIN h

\* the step is an open that returned a new fd
OpenSucceeded == last'.op = "open" /\ last'.kind = "ok" /\ last'.ret # -1

\* the step is a fcntl F_DUPFD / F_DUPFD_CLOEXEC that returned a new fd
DupSucceeded == last'.op = "fcntl" /\ last'.kind = "ok" /\ last'.msg = "F_DUPFD" /\ last'.ret # -1

C2_InsertReturnsLowestFreeFromFloor ==
    [][/\ OpenSucceeded => last'.ret = LowestFree(handles, Max(0, 3))
       /\ DupSucceeded =>
             \A fd \in FdVals(MaxOpen), cmd \in DupCmds, start \in StartVals :
                 fcntl(fd, cmd, Some(start), "") =>
                     last'.ret = LowestFree(handles, Max(start, 3))]_vars

\* C3: a successful fcntl(fd, F_DUPFD or F_DUPFD_CLOEXEC, start) returns a new
\* fd that is >= start and differs from fd.
C3_DupReturnsAtLeastStart ==
    [][DupSucceeded =>
          \A fd \in FdVals(MaxOpen), cmd \in DupCmds, start \in StartVals :
              fcntl(fd, cmd, Some(start), "") =>
                  /\ last'.ret >= start
                  /\ last'.ret # fd]_vars

C7_CloseWritableSyncsAndRemoves ==
    [][last'.op = "close" =>
          /\ \A fd \in FdVals(MaxOpen), fault \in {"", "EIO"} :
                (close(fd, fault) /\ fd \in DOMAIN handles /\ handles[fd].writable) =>
                    /\ last'.host = <<"sync_all", "drop">>
                    /\ fd \notin DOMAIN handles'
                    /\ \A d \in DOMAIN descs' : \E k \in DOMAIN handles' : handles'[k].file = d
                    /\ fault = "" => (last'.ret = 0 /\ last'.err = <<>>)
                    /\ fault # "" => (last'.ret = -1 /\ last'.err = <<fault>>)
          /\ (last.op = "close" /\ last.host = <<"sync_all", "drop">> /\ last.ret = -1
              /\ last'.fd = last.fd)
                 => (last'.ret = -1 /\ last'.err = <<"EBADF">> /\ last'.host = <<>>)]_vars

\* a close whose sync failed: -1 with the host's errno, and the entry is gone
C7_Witness ==
    /\ last.op = "close" /\ last.host = <<"sync_all", "drop">>
    /\ last.ret = -1 /\ last.err = <<"EIO">>
    /\ last.fd \notin DOMAIN handles


(***************************************************************************)
(* The open specification: open with every flag word over FlagBits on      *)
(* either platform, and close, on a table of at most MaxOpenIO entries.    *)
(***************************************************************************)
InitOpen == Fresh /\ Config({FALSE}, {"linux", "macos"})

\* the fds the table may hold, and one it never holds
IOFds == MIN_NORMAL_FILE_FD .. (MaxFd(MaxOpenIO) + 1)

OpenAny ==
    \E path \in Paths, flag \in OpenFlags, fault \in {"", "EIO"} :
        /\ open(path, flag, fault)
        /\ Bounded(MaxOpenIO)

CloseIO ==
    \E fd \in IOFds :
        \E fault \in Faults(fd \in DOMAIN handles /\ handles[fd].writable, "EIO") :
            close(fd, fault)

NextOpen == OpenAny \/ CloseIO

SpecOpen == InitOpen /\ [][NextOpen]_vars


(***************************************************************************)
(* Properties of open (specification SpecOpen).                            *)
(***************************************************************************)
\* the bits open supports on the platform: the access mode, O_APPEND,
\* O_TRUNC, O_CREAT and O_CLOEXEC
SupportedFlagBits ==
    AccessBits \cup eval_libc_i32("O_APPEND") \cup eval_libc_i32("O_TRUNC")
        \cup eval_libc_i32("O_CREAT") \cup eval_libc_i32("O_CLOEXEC")

\* the outcome changes nothing and reached no host call
NoEffect(out) == out.last.host = <<>> /\ out = Same(out.last)

\* C10: open with a flag word that has a bit outside the access mode,
\* O_APPEND, O_TRUNC, O_CREAT and O_CLOEXEC fails as unsupported before any
\* host open: no file is created or truncated and the fd table is unchanged.
C10_UnknownFlagBitsRefused ==
    \A path \in Paths, flag \in OpenFlags, fault \in {"", "EIO"} :
        ~(flag \subseteq SupportedFlagBits) =>
            LET out == open_outcome(path, flag, fault) IN
            /\ out.last.kind = "unsup"
            /\ NoEffect(out)

\* an open refused for its flags while a file is open: nothing was created
C10_Witness ==
    /\ last.op = "open" /\ last.kind = "unsup" /\ last.msg = "unsupported flags"
    /\ last.host = <<>>
    /\ DOMAIN handles = {3}
    /\ "b" \notin DOMAIN fsys

(***************************************************************************)
(* The I/O specification: open, read, write and close on a table of at     *)
(* most MaxOpenIO entries, one host file and MemSize bytes of guest        *)
(* memory.                                                                 *)
(***************************************************************************)
InitIO == Fresh /\ Config({FALSE}, {"linux"})

\* read-only, read-write
IOFlags == {{}, {1}}
Bufs == 0..MemSize
Counts == 0..(MemSize + 1)

OpenIO ==
    \E path \in {"a"}, flag \in IOFlags, fault \in {"", "EIO"} :
        /\ open(path, flag, fault)
        /\ Bounded(MaxOpenIO)

\* the host call a read or write of (fd, buf, count) reaches, if any
ReachesHost(fd, buf, count) == fd \in DOMAIN handles /\ check_ptr_access(buf, count)

Read ==
    \E fd \in IOFds, buf \in Bufs, count \in Counts :
        \E n \in IF ReachesHost(fd, buf, count)
                 THEN ReadLens(handles[fd].file, count) ELSE {0} :
            \E fault \in Faults(ReachesHost(fd, buf, count), "EIO") :
                read(fd, buf, count, n, fault)

Write ==
    \E fd \in IOFds, buf \in Bufs, count \in Counts :
        \E n \in IF ReachesHost(fd, buf, count)
                 THEN WriteLens(handles[fd].file, count) ELSE {0} :
            \E fault \in Faults(ReachesHost(fd, buf, count), "EIO") :
                write(fd, buf, count, n, fault)

NextIO == OpenIO \/ CloseIO \/ Read \/ Write

SpecIO == InitIO /\ [][NextIO]_vars


(***************************************************************************)
(* Properties of read and write (specification SpecIO).                    *)
(***************************************************************************)
\* count bytes from buf on are accessible guest memory
Accessible(buf, count) == \A a \in buf..(buf + count - 1) : a \in DOMAIN mem

\* C8: a successful read(fd, buf, count) that returns n writes exactly the n
\* bytes read to buf[0..n), leaves buf[n..count) as it was, and writes to no
\* other guest memory.
C8_ReadWritesOnlyBytesRead ==
    [][(last'.op = "read" /\ last'.kind = "ok" /\ last'.ret >= 0) =>
          LET fd == last'.fd
              n  == last'.ret
          IN  \A buf \in Bufs, count \in Counts :
                  read(fd, buf, count, n, "") =>
                      LET d == handles[fd].file IN
                      /\ n <= count
                      /\ \A i \in 1..n :
                            mem'[buf + i - 1] = fsys[descs[d].path][descs[d].pos + i]
                      /\ \A a \in DOMAIN mem :
                            (a < buf \/ a >= buf + n) => mem'[a] = mem[a]]_vars

\* C9: read and write check that buf is accessible for the full requested
\* count before the fd is looked up and before any host I/O: with a buffer
\* that is not accessible the call fails, whether the fd is open or not, no
\* byte is transferred, and host file, position and fd table are unchanged.
C9_BufferCheckedBeforeIO ==
    \A fd \in IOFds, buf \in Bufs, count \in Counts :
        ~Accessible(buf, count) =>
            \A n \in 0..count, fault \in {"", "EIO"} :
                \A out \in {read_outcome(fd, buf, count, n, fault),
                            write_outcome(fd, buf, count, n, fault)} :
                    /\ out.last.kind = "ub"
                    /\ NoEffect(out)

\* a write to an open writable fd failed on its buffer: the file is as it was
C9_Witness ==
    /\ last.op = "write" /\ last.kind = "ub" /\ last.host = <<>>
    /\ last.fd \in DOMAIN handles
    /\ handles[last.fd].writable
    /\ fsys = InitFiles
    /\ mem = InitMem

(***************************************************************************)
(* The fd specification: every dispatch entry that takes an fd, on a table *)
(* of at most MaxOpenIO entries, with the first byte of guest memory as    *)
(* the buffer.                                                             *)
(***************************************************************************)
InitFd == Fresh /\ Config({FALSE}, {"macos"})

Offsets == {-1, 0, 1}
Whences == {SEEK_SET, SEEK_CUR, SEEK_END, 3}
AllTimes == [created |-> Time(5, 9), accessed |-> Time(6, 0), modified |-> Time(7, 1)]
OnlyModified == [created |-> NoTime, accessed |-> NoTime, modified |-> Time(7, 1)]
BeforeEpoch == [created |-> NoTime, accessed |-> NoTime, modified |-> Time(-1, 0)]
TimesVals == {OnlyModified, BeforeEpoch}
\* a buffer of one byte, an empty one, and one that runs past the allocation
FdCounts == {0, 1, MemSize + 1}

\* the step leaves every open host file at a position the model holds
BoundedPos == \A d \in DOMAIN descs' : descs'[d].pos <= MaxFileLen

FcntlIO ==
    \E fd \in {2} \cup IOFds, cmd \in CmdVals :
        \E start_op \in IF cmd \in DupCmds THEN StartOps ELSE {None} :
            \E fault \in Faults(cmd \in DupCmds /\ start_op # None /\ fd \in DOMAIN handles, "EIO") :
                /\ fcntl(fd, cmd, start_op, fault)
                /\ Bounded(MaxOpenIO)

ReadFd ==
    \E fd \in IOFds, count \in FdCounts :
        \E n \in IF ReachesHost(fd, 0, count)
                 THEN ReadLens(handles[fd].file, count) ELSE {0} :
            \E fault \in Faults(ReachesHost(fd, 0, count), "EIO") :
                read(fd, 0, count, n, fault)

WriteFd ==
    \E fd \in IOFds, count \in FdCounts :
        \E n \in IF ReachesHost(fd, 0, count)
                 THEN WriteLens(handles[fd].file, count) ELSE {0} :
            \E fault \in Faults(ReachesHost(fd, 0, count), "EIO") :
                write(fd, 0, count, n, fault)

Lseek ==
    \E fd \in IOFds, offset \in Offsets, whence \in Whences :
        /\ lseek64(fd, offset, whence)
        /\ BoundedPos

Fstat ==
    \E fd \in IOFds, buf_ok \in BOOLEAN, times \in TimesVals :
        \E fault \in Faults(fd \in DOMAIN handles, "EIO") :
            macos_fstat(fd, buf_ok, fault, times)

NextFd == OpenIO \/ FcntlIO \/ CloseIO \/ ReadFd \/ WriteFd \/ Lseek \/ Fstat

SpecFd == InitFd /\ [][NextFd]_vars

(***************************************************************************)
(* Properties of the calls on an fd that is not open (specification        *)
(* SpecFd).                                                                *)
(***************************************************************************)
FdOps == {"fstat", "fcntl", "read", "write", "close", "lseek64"}

\* the outcome is -1 with EBADF, with no host call and no effect
NotFound(out) ==
    /\ out.last.kind = "ok"
    /\ out.last.ret = -1
    /\ out.last.err = <<"EBADF">>
    /\ NoEffect(out)

\* the outcome the step took
Taken ==
    [last |-> last', handles |-> handles', descs |-> descs', fsys |-> fsys',
     links |-> links', mem |-> mem', statbuf |-> statbuf']

\* C6 as stated: fstat, fcntl (any command), read, write, close and lseek
\* (any whence) on an fd that is not a key of the fd table return -1 with
\* EBADF and leave the table unchanged.
C6_AbsentFdAlwaysEBADF ==
    [][(last'.op \in FdOps /\ last'.fd \notin DOMAIN handles) => NotFound(Taken)]_vars

\* C6 as the code has it: on an fd that is not a key of the fd table, no
\* call changes the table or reaches the host, and the calls that reach the
\* lookup return -1 with EBADF: close; fcntl with F_GETFD, or with F_DUPFD
\* or F_DUPFD_CLOEXEC, fd >= 3 and a third argument; read and write with an
\* accessible buffer; lseek with whence SEEK_SET, SEEK_CUR or SEEK_END; fstat
\* on macos.
C6_AbsentFdEBADFWhenLookedUp ==
    \A fd \in ({2} \cup IOFds) \ DOMAIN handles :
        /\ \A fault \in {"", "EIO"} : NotFound(close_outcome(fd, fault))
        /\ \A cmd \in CmdVals, start_op \in StartOps, fault \in {"", "EIO"} :
              LET out == fcntl_outcome(fd, cmd, start_op, fault) IN
              /\ NoEffect(out)
              /\ (\/ cmd = F_GETFD
                  \/ cmd \in DupCmds /\ fd >= 3 /\ start_op # None) => NotFound(out)
        /\ \A count \in FdCounts, n \in 0..1, fault \in {"", "EIO"} :
              \A out \in {read_outcome(fd, 0, count, n, fault),
                          write_outcome(fd, 0, count, n, fault)} :
                  /\ NoEffect(out)
                  /\ Accessible(0, count) => NotFound(out)
        /\ \A offset \in Offsets, whence \in Whences :
              LET out == lseek64_outcome(fd, offset, whence) IN
              /\ NoEffect(out)
              /\ whence \in {SEEK_SET, SEEK_CUR, SEEK_END} => NotFound(out)
        /\ \A buf_ok \in BOOLEAN, times \in TimesVals, fault \in {"", "EIO"} :
              LET out == macos_fstat_outcome(fd, buf_ok, fault, times) IN
              /\ NoEffect(out)
              /\ platform = "macos" => NotFound(out)

\* a read on an fd that is not open, next to one that is
C6_Witness ==
    /\ last.op = "read" /\ last.ret = -1 /\ last.err = <<"EBADF">>
    /\ last.fd \notin DOMAIN handles
    /\ DOMAIN handles = {3}

\* C12: lseek with a whence that is none of SEEK_SET, SEEK_CUR and SEEK_END
\* returns -1 with EINVAL without looking the fd up and without a host seek:
\* the position of every open file and the fd table are unchanged, whether
\* the fd is open or not.
C12_UnknownWhenceIsEINVAL ==
    \A fd \in {2} \cup IOFds, offset \in Offsets, whence \in Whences \cup {-1, 7} :
        whence \notin {0, 1, 2} =>
            LET out == lseek64_outcome(fd, offset, whence) IN
            /\ out.last.kind = "ok"
            /\ out.last.ret = -1
            /\ out.last.err = <<"EINVAL">>
            /\ NoEffect(out)

\* an lseek with an unknown whence on an open fd whose position is not 0
C12_Witness ==
    /\ last.op = "lseek64" /\ last.ret = -1 /\ last.err = <<"EINVAL">>
    /\ last.host = <<>>
    /\ last.fd \in DOMAIN handles
    /\ descs[handles[last.fd].file].pos = 1

\* C18: fcntl with F_DUPFD and with F_DUPFD_CLOEXEC behave identically: from
\* the same state, with the same fd and start, both return the same value or
\* the same error and leave the same fd table.
C18_DupfdCloexecSameAsDupfd ==
    ~Halted =>
        \A fd \in {0} \cup FdVals(MaxOpen), start_op \in StartOps :
            \A fault \in Faults(fd \in DOMAIN handles /\ start_op # None, "EIO") :
                fcntl_outcome(fd, 0, start_op, fault)
                    = fcntl_outcome(fd, IF platform = "linux" THEN 1030 ELSE 67, start_op, fault)

\* a duplicate of fd 4 next to fd 3, which either command makes
C18_Witness ==
    /\ last.op = "fcntl" /\ last.msg = "F_DUPFD" /\ last.fd = 4 /\ last.ret = 5
    /\ DOMAIN handles = {3, 4, 5}
    /\ handles[5] = handles[4]

\* C19: fcntl with F_DUPFD or F_DUPFD_CLOEXEC fails as unsupported when
\* fd < 3 (0, 1, 2 or negative), and when fd >= 3 and there is no third
\* argument; no host file is cloned and the fd table is unchanged.
C19_DupRefusesReservedAndNoStart ==
    ~Halted =>
        \A cmd \in {0, IF platform = "linux" THEN 1030 ELSE 67} :
            /\ \A fd \in {-1, 0, 1, 2}, start_op \in StartOps :
                  LET out == fcntl_outcome(fd, cmd, start_op, "") IN
                  out.last.kind = "unsup" /\ NoEffect(out)
            /\ \A fd \in 3..(MaxFd(MaxOpen) + 1) :
                  LET out == fcntl_outcome(fd, cmd, None, "") IN
                  out.last.kind = "unsup" /\ NoEffect(out)

\* a duplication of an open fd without a third argument was refused
C19_Witness ==
    /\ last.op = "fcntl" /\ last.kind = "unsup" /\ last.host = <<>>
    /\ last.fd \in DOMAIN handles
    /\ DOMAIN handles = {3, 4}

\* the outcome is a call that returned a new fd
Allocated(out) == out.last.kind = "ok" /\ out.last.ret # -1

\* C20: the writable flag of an entry is true exactly when open created it
\* with access mode O_WRONLY or O_RDWR, or F_DUPFD created it from an entry
\* whose flag is true, and it never changes afterwards; so close syncs the
\* host file exactly when the flag is true, and close of a read-only fd does
\* not sync and returns 0.
C20_WritableFromAccessMode ==
    LET Kept(out) == \A k \in DOMAIN handles \cap DOMAIN out.handles :
                         out.handles[k].writable = handles[k].writable
    IN
    ~Halted =>
        /\ \A flag \in SUBSET {0, 1, 10} :
              LET out == open_outcome("a", flag, "") IN
              /\ Kept(out)
              /\ Allocated(out) =>
                    out.handles[out.last.ret].writable = (flag \cap {0, 1} \in {{0}, {1}})
        /\ \A fd \in DOMAIN handles, start \in StartVals :
              LET out == fcntl_outcome(fd, 0, Some(start), "") IN
              /\ Kept(out)
              /\ Allocated(out) => out.handles[out.last.ret].writable = handles[fd].writable
        /\ \A fd \in DOMAIN handles, fault \in {"", "EIO"} :
              LET out == close_outcome(fd, fault) IN
              /\ Kept(out)
              /\ (out.last.host = <<"sync_all", "drop">>) = handles[fd].writable
              /\ ~handles[fd].writable =>
                    (out.last.host = <<"drop">> /\ out.last.ret = 0 /\ out.last.err = <<>>)

\* a read-only fd was closed without a sync, next to a writable fd and its duplicate
C20_Witness ==
    /\ last.op = "close" /\ last.host = <<"drop">> /\ last.ret = 0
    /\ DOMAIN handles = {3, 4}
    /\ handles[3].writable /\ handles[4].writable
    /\ handles[3].file = handles[4].file

(***************************************************************************)
(* The path specification: open, close, unlink, symlink, rename, stat,     *)
(* lstat and statx on both platforms, with and without isolation.          *)
(***************************************************************************)
InitPath == Fresh /\ Config({FALSE, TRUE}, {"linux", "macos"})

\* the empty path, an absolute path, the names of the working directory
PathVals == {"", "/"} \cup Paths
\* a null pointer, or a pointer to a path
PathOps == {None} \cup {Some(p) : p \in PathVals}
\* what a link may point to in the model: a name of the working directory
TargetOps == {None} \cup {Some(p) : p \in {""} \cup Paths}
DirFds == {AT_FDCWD, MIN_NORMAL_FILE_FD}
\* no flag, AT_SYMLINK_NOFOLLOW, AT_EMPTY_PATH
StatxFlags == {{}, AT_SYMLINK_NOFOLLOW, AT_EMPTY_PATH}
\* the requested mask of the calls: every field the model names
StatxMasks == {STATX_TYPE \cup STATX_SIZE \cup STATX_ATIME \cup STATX_BTIME \cup STATX_MTIME}
StatxBufs == {"null", "valid", "dangling"}

\* the names of the open host files
OpenPaths == {descs[d].path : d \in DOMAIN descs}

OpenPath ==
    \E path \in Paths, flag \in IOFlags, fault \in {"", "EIO"} :
        /\ open(path, flag, fault)
        /\ Bounded(MaxOpenIO)

\* the model holds an open host file by its name: the file keeps one
Unlink ==
    \E path_op \in PathOps, fault \in {"", "EIO"} :
        /\ unlink(path_op, fault)
        /\ OpenPaths \subseteq DOMAIN fsys'

Symlink ==
    \E target_op \in TargetOps, linkpath_op \in PathOps, fault \in {"", "EIO"} :
        symlink(target_op, linkpath_op, fault)

\* the model holds an open host file by its name: no open file is replaced
Rename ==
    \E oldpath_op \in PathOps, newpath_op \in PathOps, fault \in {"", "EIO"} :
        /\ rename(oldpath_op, newpath_op, fault)
        /\ (fsys' = fsys \/ newpath_op[1] \notin OpenPaths)

Stat ==
    \E path_op \in PathOps, buf_ok \in BOOLEAN, times \in TimesVals, fault \in {"", "EIO"} :
        macos_stat(path_op, buf_ok, fault, times)

Lstat ==
    \E path_op \in PathOps, buf_ok \in BOOLEAN, times \in TimesVals, fault \in {"", "EIO"} :
        macos_lstat(path_op, buf_ok, fault, times)

Statx ==
    \E dirfd \in DirFds, pathname_op \in PathOps, flags \in StatxFlags, mask \in StatxMasks,
       statxbuf \in StatxBufs, times \in TimesVals :
        \E fault \in Faults(statxbuf = "valid", "EIO") :
            linux_statx(dirfd, pathname_op, flags, mask, statxbuf, fault, times)

NextPath == OpenPath \/ CloseIO \/ Unlink \/ Symlink \/ Rename \/ Stat \/ Lstat \/ Statx

SpecPath == InitPath /\ [][NextPath]_vars

(***************************************************************************)
(* Properties of the dispatch entries under isolation, of the null path    *)
(* pointers, of the host failures and of statx (specification SpecPath).   *)
(***************************************************************************)
\* the outcome is an unsupported-operation failure with no effect at all
Refused(out) ==
    /\ out.last.kind = "unsup"
    /\ out.last.err = <<>>
    /\ NoEffect(out)

\* the evaluation goes on, without isolation: the next call reaches its checks
Running == ~isolation /\ ~Halted

AnyFds == {-1, 2} \cup IOFds
AnyTimes == {AllTimes, OnlyModified, BeforeEpoch}
AnyFaults == {"", "EIO"}

\* C11: with isolation set, every dispatch entry (open, fcntl, close, read,
\* write, lseek, unlink, symlink, rename, stat, lstat, fstat, statx) fails as
\* unsupported as its first step: no host call is made, guest memory and
\* errno are not written, and the fd table is unchanged, hence empty in
\* every reachable state.
C11_IsolationRefusesEveryCall ==
    isolation =>
        /\ handles = <<>>
        /\ \A fault \in AnyFaults :
            /\ \A path \in Paths, flag \in OpenFlags : Refused(open_outcome(path, flag, fault))
            /\ \A fd \in AnyFds :
                /\ \A cmd \in CmdVals, start_op \in StartOps :
                      Refused(fcntl_outcome(fd, cmd, start_op, fault))
                /\ Refused(close_outcome(fd, fault))
                /\ \A buf \in Bufs, count \in Counts :
                      /\ Refused(read_outcome(fd, buf, count, 0, fault))
                      /\ Refused(write_outcome(fd, buf, count, 0, fault))
                /\ \A offset \in Offsets, whence \in Whences :
                      Refused(lseek64_outcome(fd, offset, whence))
                /\ \A buf_ok \in BOOLEAN, times \in AnyTimes :
                      Refused(macos_fstat_outcome(fd, buf_ok, fault, times))
            /\ \A path_op \in PathOps :
                /\ Refused(unlink_outcome(path_op, fault))
                /\ \A other_op \in PathOps :
                      /\ Refused(symlink_outcome(path_op, other_op, fault))
                      /\ Refused(rename_outcome(path_op, other_op, fault))
                /\ \A buf_ok \in BOOLEAN, times \in AnyTimes :
                      /\ Refused(macos_stat_outcome(path_op, buf_ok, fault, times))
                      /\ Refused(macos_lstat_outcome(path_op, buf_ok, fault, times))
                /\ \A dirfd \in DirFds, flags \in StatxFlags, mask \in StatxMasks,
                      statxbuf \in StatxBufs, times \in AnyTimes :
                      Refused(linux_statx_outcome(dirfd, path_op, flags, mask, statxbuf, fault, times))

\* an unlink was refused under isolation and the file it names is still there
C11_Witness ==
    /\ isolation
    /\ last.op = "unlink" /\ last.kind = "unsup" /\ last.msg = "isolation"
    /\ last.host = <<>>
    /\ handles = <<>> /\ fsys = InitFiles /\ mem = InitMem /\ statbuf = <<>>

\* the outcome is -1 with EFAULT, with no host call and no effect
Fault(out) ==
    /\ out.last.kind = "ok"
    /\ out.last.ret = -1
    /\ out.last.err = <<"EFAULT">>
    /\ NoEffect(out)

\* C13: rename and symlink with either path pointer null return -1 with
\* EFAULT before any host call and before the path string is read.
C13_NullPathIsEFAULT ==
    ~isolation =>
        \A path_op \in PathOps, fault \in AnyFaults :
            /\ Fault(rename_outcome(None, path_op, fault))
            /\ Fault(rename_outcome(path_op, None, fault))
            /\ Fault(symlink_outcome(None, path_op, fault))
            /\ Fault(symlink_outcome(path_op, None, fault))

\* the host call of the outcome failed with `fault`
HostFailed(out, fault) ==
    /\ fault # ""
    /\ out.last.host # <<>>
    /\ out.last.op = "close" => out.last.host[1] = "sync_all"

\* the outcome is a return of -1 to the guest with errno set, and the
\* evaluation goes on
Degraded(out) ==
    /\ out.last.kind = "ok"
    /\ out.last.ret = -1
    /\ Len(out.last.err) = 1

\* C14: a host-operation failure in a dispatch entry (open, try_clone, sync,
\* read, write, seek, remove_file, symlink, rename, metadata) never aborts
\* the evaluation: the call returns -1 with errno set from the host error,
\* and the next call runs normally.
C14_HostFailureIsMinusOne ==
    Running =>
        /\ \A fault \in {"EIO"} :
            LET Ok(out) == HostFailed(out, fault) =>
                               (Degraded(out) /\ out.last.err \in {<<fault>>, <<"EBADF">>, <<"EINVAL">>})
            IN
            /\ \A path \in Paths, flag \in TableFlags \cup IOFlags :
                  Ok(open_outcome(path, flag, fault))
            /\ \A fd \in AnyFds :
                /\ \A cmd \in DupCmds, start_op \in StartOps :
                      Ok(fcntl_outcome(fd, cmd, start_op, fault))
                /\ Ok(close_outcome(fd, fault))
                /\ \A count \in 0..MemSize :
                      /\ Ok(read_outcome(fd, 0, count, 0, fault))
                      /\ Ok(write_outcome(fd, 0, count, 0, fault))
                /\ \A buf_ok \in BOOLEAN, times \in TimesVals :
                      Ok(macos_fstat_outcome(fd, buf_ok, fault, times))
            /\ \A path_op \in PathOps \ {None} :
                /\ Ok(unlink_outcome(path_op, fault))
                /\ \A other_op \in PathOps \ {None} :
                      /\ Ok(symlink_outcome(path_op, other_op, fault))
                      /\ Ok(rename_outcome(path_op, other_op, fault))
                /\ \A buf_ok \in BOOLEAN, times \in TimesVals :
                      /\ Ok(macos_stat_outcome(path_op, buf_ok, fault, times))
                      /\ Ok(macos_lstat_outcome(path_op, buf_ok, fault, times))
                /\ \A dirfd \in DirFds, flags \in StatxFlags,
                      statxbuf \in {"valid", "dangling"}, times \in TimesVals :
                      Ok(linux_statx_outcome(dirfd, path_op, flags, {}, statxbuf, fault, times))
        \* the failures the host raises by itself: a seek to before the start,
        \* a file that is not there
        /\ \A fd \in DOMAIN handles, whence \in {0, 1, 2} :
              LET out == lseek64_outcome(fd, -1 - MaxFileLen, whence) IN
              out.last.host = <<"seek">> /\ Degraded(out)
        /\ \A path \in PathVals \ DOMAIN fsys :
              /\ path \notin DOMAIN links => Degraded(unlink_outcome(Some(path), ""))
              /\ Resolve(path) # None /\ Resolve(path)[1] \notin DOMAIN fsys \cup {"/"} =>
                    /\ platform = "macos" =>
                          Degraded(macos_stat_outcome(Some(path), TRUE, "", OnlyModified))
                    /\ platform = "linux" =>
                          Degraded(linux_statx_outcome(AT_FDCWD, Some(path), {}, {}, "valid", "", OnlyModified))

\* a rename failed in the host: -1 with the host's error, the files as they
\* were, while a file is open
C14_Witness ==
    /\ last.op = "rename" /\ last.ret = -1 /\ last.err = <<"EIO">>
    /\ last.host = <<"rename">> /\ last.kind = "ok"
    /\ fsys = InitFiles
    /\ DOMAIN handles = {3}

\* every subset of the three timestamps supplied
PresentTimes ==
    {[created |-> c, accessed |-> a, modified |-> m] :
        c \in {NoTime, Time(5, 9)}, a \in {NoTime, Time(6, 0)}, m \in {NoTime, Time(7, 1)}}

\* C15: a successful statx reports the mask STATX_TYPE | STATX_SIZE, plus
\* STATX_ATIME, STATX_BTIME and STATX_MTIME exactly for the timestamps the
\* host supplied (accessed, created, modified); the requested mask has no
\* influence on the outcome.
C15_StatxMaskIsWhatHostSupplied ==
    (Running /\ platform = "linux") =>
    \A dirfd \in DirFds, path \in PathVals, flags \in StatxFlags, times \in PresentTimes :
        LET out == linux_statx_outcome(dirfd, Some(path), flags, {}, "valid", "", times) IN
        /\ (out.last.kind = "ok" /\ out.last.ret = 0) =>
              out.statbuf[1] = {0, 9}
                  \cup (IF times.accessed.ok THEN {5} ELSE {})
                  \cup (IF times.created.ok THEN {11} ELSE {})
                  \cup (IF times.modified.ok THEN {6} ELSE {})
        /\ \A mask \in {{0, 5, 6, 9, 11}} :
              linux_statx_outcome(dirfd, Some(path), flags, mask, "valid", "", times) = out

\* statx of the file on a host that supplied the modification time only
C15_Witness ==
    /\ last.op = "statx" /\ last.kind = "ok" /\ last.ret = 0
    /\ last.host = <<"fs::metadata">>
    /\ statbuf[1] = {0, 6, 9}
    /\ statbuf[10] = 2

\* C16: statx with non-null pointers proceeds to the metadata lookup only
\* when pathname is absolute, or dirfd is AT_FDCWD, or pathname is empty and
\* AT_EMPTY_PATH is set; in the last case the lookup is by dirfd in the fd
\* table.  Every other combination fails as unsupported without a host call
\* or a write to the buffer.
C16_StatxAddressing ==
    (Running /\ platform = "linux") =>
        \A dirfd \in DirFds \cup IOFds, path \in PathVals, flags \in SUBSET {8, 12},
           statxbuf \in {"valid", "dangling"}, fault \in AnyFaults, times \in {OnlyModified} :
            LET out == linux_statx_outcome(dirfd, Some(path), flags, {}, statxbuf, fault, times)
                by_fd == path = "" /\ 12 \in flags
            IN  IF path = "/" \/ dirfd = -100 \/ by_fd
                THEN IF by_fd
                     THEN IF dirfd \in DOMAIN handles
                          THEN out.last.host = <<"metadata">>
                          ELSE NotFound(out)
                     ELSE out.last.host
                              = IF 8 \in flags THEN <<"fs::symlink_metadata">> ELSE <<"fs::metadata">>
                ELSE Refused(out)

\* statx of an open fd by the empty path and AT_EMPTY_PATH
C16_Witness ==
    /\ last.op = "statx" /\ last.kind = "ok" /\ last.ret = 0
    /\ last.fd \in DOMAIN handles
    /\ last.host = <<"metadata">>
    /\ statbuf[7] = S_IFREG

\* C17: statx with a null pathname or a null statxbuf returns -1 with EFAULT
\* for every dirfd and flags, without a host lookup and without a memory
\* write.
C17_StatxNullIsEFAULT ==
    (Running /\ platform = "linux") =>
        \A dirfd \in DirFds \cup IOFds \cup {-1}, pathname_op \in PathOps, flags \in SUBSET {8, 12},
           statxbuf \in StatxBufs, fault \in AnyFaults, times \in {OnlyModified} :
            (pathname_op = None \/ statxbuf = "null") =>
                Fault(linux_statx_outcome(dirfd, pathname_op, flags, {}, statxbuf, fault, times))

\* statx with a null pointer and an fd that is open, after a successful statx
C17_Witness ==
    /\ last.op = "statx" /\ last.ret = -1 /\ last.err = <<"EFAULT">>
    /\ last.host = <<>>
    /\ last.fd \in DOMAIN handles
    /\ statbuf # <<>>

\* the host file the outcome opened: the description that was not there before
Opened(out) == CHOOSE d \in DOMAIN out.descs : d \notin DOMAIN descs

\* C21: open decodes the access mode as flags & 0b11; a value that is none of
\* O_RDONLY, O_WRONLY and O_RDWR fails as unsupported with no host open and no
\* fd; O_RDONLY opens the host file read-only, O_WRONLY write-only and O_RDWR
\* read-write.
C21_AccessModeDecidesHostAccess ==
    ~Halted =>
        \A path \in Paths, flag \in OpenFlags :
            LET out == open_outcome(path, flag, "")
                mode == flag \cap {0, 1}
            IN  /\ mode = {0, 1} => Refused(out)
                /\ Allocated(out) =>
                       /\ out.descs[Opened(out)].read = (mode \in {{}, {1}})
                       /\ out.descs[Opened(out)].write = (mode \in {{0}, {1}})

\* the host has no metadata for the path: the lookup fails
NoPathMetadata(path, follow_symlink, fault) ==
    HostPathMetadata(path, follow_symlink, fault, OnlyModified).err # ""

\* the call returned -1 with errno set and wrote nothing to the guest
FailedUnwritten(out) ==
    /\ Degraded(out)
    /\ out.statbuf = statbuf
    /\ out.mem = mem

\* C23: in stat, lstat, fstat and statx, when the metadata lookup fails (the
\* host reports an error, or for fstat and statx by dirfd the fd is absent)
\* the call returns -1 with errno set and the guest's stat/statx buffer is
\* left unchanged.
C23_FailedLookupLeavesBuffer ==
    Running =>
        \A fault \in AnyFaults, buf_ok \in BOOLEAN :
            /\ platform = "macos" =>
                   /\ \A path \in PathVals :
                          /\ NoPathMetadata(path, TRUE, fault) =>
                                 FailedUnwritten(macos_stat_outcome(Some(path), buf_ok, fault, OnlyModified))
                          /\ NoPathMetadata(path, FALSE, fault) =>
                                 FailedUnwritten(macos_lstat_outcome(Some(path), buf_ok, fault, OnlyModified))
                   /\ \A fd \in AnyFds :
                          fd \notin DOMAIN handles \/ fault # "" =>
                              FailedUnwritten(macos_fstat_outcome(fd, buf_ok, fault, OnlyModified))
            /\ platform = "linux" =>
                   \A statxbuf \in {"valid", "dangling"} :
                       /\ \A path \in PathVals, follow \in BOOLEAN :
                              NoPathMetadata(path, follow, fault) /\ path # "" =>
                                  FailedUnwritten(linux_statx_outcome(AT_FDCWD, Some(path),
                                      IF follow THEN {} ELSE {8}, {}, statxbuf, fault, OnlyModified))
                       /\ \A dirfd \in AnyFds :
                              dirfd \notin DOMAIN handles \/ fault # "" =>
                                  FailedUnwritten(linux_statx_outcome(dirfd, Some(""), {12}, {},
                                      statxbuf, fault, OnlyModified))

\* a statx of a missing file after a statx that filled the struct: the struct
\* still holds what the earlier call wrote
C23_Witness ==
    /\ last.op = "statx" /\ last.kind = "ok" /\ last.ret = -1
    /\ last.err = <<"ENOENT">>
    /\ Len(statbuf) = 28 /\ statbuf[7] = S_IFREG

\* the fields of the statx struct that hold neither the mask, the mode, the
\* size nor a pair of atime, btime or mtime
UnsupportedFields == (1..28) \ {1, 7, 10, 13, 14, 16, 17, 22, 23}

\* the host has no creation time, and the epoch itself as the time of the
\* last access and of the last modification
EpochTimes == [created |-> NoTime, accessed |-> Time(0, 0), modified |-> Time(0, 0)]

\* the host has the creation time only
OnlyCreated == [created |-> Time(5, 9), accessed |-> NoTime, modified |-> NoTime]

\* answers of the host in which each timestamp is there and is missing
SuppliedTimes == {AllTimes, OnlyModified, OnlyCreated, EpochTimes}

\* the outcomes of statx on the names of the model, for one answer of the host
StatxOutcomes(times) ==
    {linux_statx_outcome(AT_FDCWD, Some(path), flags, {}, "valid", "", times) :
        path \in {"a", "b", "/"}, flags \in {{}, AT_SYMLINK_NOFOLLOW}}

\* the statx struct holds zero in the unsupported fields and a file type as mode
ZeroButSupported(buf) ==
    /\ Len(buf) = 28
    /\ \A i \in UnsupportedFields : buf[i] = 0
    /\ buf[7] \in {S_IFREG, S_IFDIR, S_IFLNK}

\* the pair at `i` is 0/0 for a time the host did not supply, else the time
PairAsSupplied(buf, i, time) ==
    <<buf[i], buf[i + 1]>> = IF time.ok THEN <<time.sec, time.nsec>> ELSE <<0, 0>>

\* the pair at `i` is 0/0 exactly when the host did not supply the time
ZeroPairIffAbsent(buf, i, time) ==
    (<<buf[i], buf[i + 1]>> = <<0, 0>>) <=> ~time.ok

\* C24 as stated: on every successful statx, every written field other than
\* mask, mode, size and the atime/btime/mtime pairs is zero, mode holds only
\* the file-type constant, and an atime/btime/mtime pair is written as 0/0
\* exactly when the host did not supply that timestamp.
C24_ZeroPairExactlyWhenAbsent ==
    Running /\ platform = "linux" =>
        \A times \in SuppliedTimes :
            \A out \in StatxOutcomes(times) :
                out.last.kind = "ok" /\ out.last.ret = 0 =>
                    /\ ZeroButSupported(out.statbuf)
                    /\ ZeroPairIffAbsent(out.statbuf, 13, times.accessed)
                    /\ ZeroPairIffAbsent(out.statbuf, 16, times.created)
                    /\ ZeroPairIffAbsent(out.statbuf, 22, times.modified)

\* C24, amended: on every successful statx, every written field other than
\* mask, mode, size and the atime/btime/mtime pairs is zero, mode holds only
\* the file-type constant, and an atime/btime/mtime pair is 0/0 when the host
\* did not supply that timestamp and the host's seconds/nanoseconds when it
\* did (0/0 again for the epoch itself).
C24_UnsupportedFieldsZero ==
    Running /\ platform = "linux" =>
        \A times \in SuppliedTimes :
            \A out \in StatxOutcomes(times) :
                out.last.kind = "ok" /\ out.last.ret = 0 =>
                    /\ ZeroButSupported(out.statbuf)
                    /\ PairAsSupplied(out.statbuf, 13, times.accessed)
                    /\ PairAsSupplied(out.statbuf, 16, times.created)
                    /\ PairAsSupplied(out.statbuf, 22, times.modified)

\* a statx of a symbolic link itself, the host having the modification time only
C24_Witness ==
    /\ last.op = "statx" /\ last.kind = "ok" /\ last.ret = 0
    /\ last.host = <<"fs::symlink_metadata">>
    /\ statbuf[7] = S_IFLNK
    /\ <<statbuf[13], statbuf[14]>> = <<0, 0>>
    /\ <<statbuf[22], statbuf[23]>> = <<7, 1>>
    /\ statbuf[2] = 0

(***************************************************************************)
(* Duplicates are independent entries (specification Spec).                *)
(***************************************************************************)
\* read, write, lseek and F_GETFD on fd, with a buffer of one byte
CallsOn(fd) ==
    {read_outcome(fd, 0, 1, 1, ""), write_outcome(fd, 0, 1, 1, ""),
     lseek64_outcome(fd, 0, SEEK_CUR), fcntl_outcome(fd, F_GETFD, None, "")}

\* fd is in the table: no call on it ends as a lookup that found nothing
InTable(fd) == \A out \in CallsOn(fd) : ~NotFound(out)

\* no call on fd returns -1 with EBADF
NeverEBADF(fd) ==
    \A out \in CallsOn(fd) : ~(out.last.ret = -1 /\ out.last.err = <<"EBADF">>)

\* the step is a close of a, and b is another entry of the same host file
ClosesDuplicate(a, b) ==
    /\ a \in DOMAIN handles /\ b \in DOMAIN handles /\ a # b
    /\ handles[a].file = handles[b].file
    /\ last'.op = "close" /\ last'.fd = a

\* the close of a removed a and nothing else, and a second close finds nothing
ClosedOnce(a, b) ==
    /\ last'.kind = "ok"
    /\ last'.err = <<>> => last'.ret = 0
    /\ DOMAIN handles' = DOMAIN handles \ {a}
    /\ handles'[b] = handles[b]
    /\ handles[b].file \in DOMAIN descs'
    /\ NotFound(close_outcome(a, ""))'

\* C27 as stated: an fd created by F_DUPFD is an independent entry: after
\* duplicating a into b, closing a leaves b open and read, write, lseek and
\* F_GETFD on b do not return EBADF, and closing b leaves a open; each close
\* succeeds once and a second close of the same fd returns EBADF.
C27_DuplicateNeverEBADF ==
    [][\A a, b \in DOMAIN handles :
          ClosesDuplicate(a, b) => ClosedOnce(a, b) /\ NeverEBADF(b)']_vars

\* C27, amended: after duplicating a into b, closing either of the two
\* leaves the other in the table with its entry and its host file: read,
\* write, lseek and F_GETFD on it reach the host file and do not end as the
\* EBADF of an absent fd; each close succeeds once and a second close of the
\* same fd returns EBADF.
C27_DuplicateIsIndependent ==
    [][\A a, b \in DOMAIN handles :
          ClosesDuplicate(a, b) => ClosedOnce(a, b) /\ InTable(b)']_vars

\* fd 3 was duplicated into fd 4 and closed: fd 4 holds the host file
C27_Witness ==
    /\ last.op = "close" /\ last.fd = 3 /\ last.ret = 0
    /\ DOMAIN handles = {4}
    /\ handles[4].file \in DOMAIN descs
    /\ InTable(4)

(***************************************************************************)
(* The frame of the fd table: the calls of Spec on both platforms.         *)
(***************************************************************************)
MaxOpenFrame == 2

InitFrame == Fresh /\ Config({FALSE}, {"linux", "macos"})

OpenFrame ==
    \E path \in {"a"}, flag \in TableFlags, fault \in {"", "EIO"} :
        /\ open(path, flag, fault)
        /\ Bounded(MaxOpenFrame)

FcntlFrame ==
    \E fd \in FdVals(MaxOpenFrame), cmd \in CmdVals :
        \E start_op \in IF cmd \in DupCmds THEN StartOps ELSE {None} :
            \E fault \in Faults(cmd \in DupCmds /\ start_op # None /\ fd \in DOMAIN handles, "EIO") :
                /\ fcntl(fd, cmd, start_op, fault)
                /\ Bounded(MaxOpenFrame)

CloseFrame ==
    \E fd \in FdVals(MaxOpenFrame) :
        \E fault \in Faults(fd \in DOMAIN handles /\ handles[fd].writable, "EIO") :
            close(fd, fault)

NextFrame == OpenFrame \/ FcntlFrame \/ CloseFrame

SpecFrame == InitFrame /\ [][NextFrame]_vars

\* the outcome leaves the key set and every writable flag as they are
KeepsTable(out) ==
    /\ DOMAIN out.handles = DOMAIN handles
    /\ \A k \in DOMAIN handles : out.handles[k].writable = handles[k].writable

\* the outcome adds one entry, under the fd it returns, and changes no other
AddsOne(out) ==
    /\ out.last.ret \notin DOMAIN handles
    /\ DOMAIN out.handles = DOMAIN handles \cup {out.last.ret}
    /\ \A k \in DOMAIN handles : out.handles[k] = handles[k]

\* the outcome removes the entry of fd and changes no other
RemovesOne(out, fd) ==
    /\ DOMAIN out.handles = DOMAIN handles \ {fd}
    /\ \A k \in DOMAIN handles \ {fd} : out.handles[k] = handles[k]

\* the outcomes of the calls that neither open, duplicate nor close
OtherOutcomes ==
    UNION {{read_outcome(fd, 0, 1, 1, fault), write_outcome(fd, 0, 1, 1, fault),
            read_outcome(fd, MemSize, 1, 1, ""),
            lseek64_outcome(fd, 0, SEEK_END), lseek64_outcome(fd, 0, 3),
            macos_fstat_outcome(fd, TRUE, fault, OnlyModified),
            linux_statx_outcome(fd, Some(""), AT_EMPTY_PATH, {}, "valid", fault, OnlyModified)} :
               fd \in FdVals(MaxOpenFrame), fault \in AnyFaults}
    \cup UNION {{macos_stat_outcome(path_op, TRUE, fault, OnlyModified),
                 macos_lstat_outcome(path_op, TRUE, fault, OnlyModified),
                 linux_statx_outcome(AT_FDCWD, path_op, {}, {}, "valid", fault, OnlyModified),
                 unlink_outcome(path_op, fault),
                 rename_outcome(path_op, Some("b"), fault),
                 symlink_outcome(path_op, Some("b"), fault)} :
               path_op \in {None, Some("a"), Some("b")}, fault \in AnyFaults}

\* C26: a successful open or F_DUPFD adds exactly one entry to the fd table
\* and changes no other; a close of an open fd removes exactly that entry and
\* changes no other; every other outcome of every dispatch call, failed
\* opens and duplications included, leaves the key set and all writable
\* flags unchanged.
C26_FrameOfFdTable ==
    ~Halted =>
        /\ \A path \in Paths, flag \in TableFlags, fault \in AnyFaults :
               LET out == open_outcome(path, flag, fault) IN
               IF Allocated(out) THEN AddsOne(out) ELSE KeepsTable(out)
        /\ \A fd \in FdVals(MaxOpenFrame), cmd \in CmdVals, start_op \in {None, Some(4)},
              fault \in AnyFaults :
               LET out == fcntl_outcome(fd, cmd, start_op, fault) IN
               IF cmd \in DupCmds /\ Allocated(out) THEN AddsOne(out) ELSE KeepsTable(out)
        /\ \A fd \in FdVals(MaxOpenFrame), fault \in AnyFaults :
               LET out == close_outcome(fd, fault) IN
               IF fd \in DOMAIN handles THEN RemovesOne(out, fd) ELSE KeepsTable(out)
        /\ \A out \in OtherOutcomes : KeepsTable(out)

\* the close of a writable fd on the macos target whose sync failed: it
\* returned -1 and removed the entry of fd 3; fd 4 is what it was
C26_Witness ==
    /\ platform = "macos"
    /\ last.op = "close" /\ last.fd = 3 /\ last.ret = -1 /\ last.err = <<"EIO">>
    /\ DOMAIN handles = {4}
    /\ handles[4].writable

(***************************************************************************)
(* The fd table at the greatest keys.  A guest reaches the table           *)
(* {I32_MAX - 1} with two entries at a time: from the table {k}, fcntl(k,  *)
(* F_DUPFD, k + 1) returns k + 1 and close(k) leaves {k + 1}.  The         *)
(* specification starts there, with either build of the interpreter.       *)
(***************************************************************************)
InitWide ==
    /\ handles = [k \in {I32_MAX - 1} |-> [file |-> 1, writable |-> FALSE]]
    /\ descs = <<[path |-> "a", pos |-> 0, read |-> TRUE, write |-> FALSE, append |-> FALSE]>>
    /\ fsys = InitFiles
    /\ links = <<>>
    /\ mem = InitMem
    /\ statbuf = <<>>
    /\ last = Call("close", I32_MAX - 2, 0, "ok", "", <<"drop">>, <<>>)
    /\ isolation = FALSE
    /\ platform = "linux"
    /\ overflow_checks \in BOOLEAN
    /\ guest = NoScript

WideFds == {MIN_NORMAL_FILE_FD, I32_MAX - 1, I32_MAX}
WideStarts == {0, I32_MAX - 1, I32_MAX}

BoundedWide == Cardinality(DOMAIN handles') <= MaxOpen

OpenWide ==
    \E flag \in IOFlags :
        /\ open("a", flag, "")
        /\ BoundedWide

DupWide ==
    \E fd \in WideFds, start \in WideStarts :
        /\ fcntl(fd, F_DUPFD, Some(start), "")
        /\ BoundedWide

CloseWide == \E fd \in WideFds : close(fd, "")

NextWide == OpenWide \/ DupWide \/ CloseWide

SpecWide == InitWide /\ [][NextWide]_vars

\* the outcome is an allocation that did not fail: it returns a key >= 3
\* that was unused and now holds the entry
ValidNewFd(out) ==
    /\ out.last.kind = "ok"
    /\ out.last.ret >= MIN_NORMAL_FILE_FD
    /\ out.last.ret \notin DOMAIN handles
    /\ DOMAIN out.handles = DOMAIN handles \cup {out.last.ret}

\* C25: allocation never fails for any reachable fd table over signed 32-bit
\* keys: when no gap is found and the greatest key is the maximum i32 value,
\* computing greatest key + 1 does not overflow, and the returned fd is still
\* a valid unused key >= 3.
C25_AllocationNeverFails ==
    ~Halted =>
        /\ \A flag \in IOFlags : ValidNewFd(open_outcome("a", flag, ""))
        /\ \A fd \in DOMAIN handles, start \in WideStarts :
               ValidNewFd(fcntl_outcome(fd, F_DUPFD, Some(start), ""))

(***************************************************************************)
(* The round trip.  A guest follows one script with a host that does not   *)
(* fail and transfers every byte it is asked for: open p for writing with  *)
(* O_CREAT, write B from its buffer, close, rename p to q, open q for      *)
(* reading, clear its buffer, read.  p is the file that exists at the      *)
(* start or a new one; q is the other name.                                *)
(***************************************************************************)
TripMems == [0..(MemSize - 1) -> {7, 8}]
TripCounts == 0..Min(MemSize, MaxFileLen)
Other(path) == IF path = "a" THEN "b" ELSE "a"

\* the length of the file `path` names, 0 when there is none
LenOf(path) == IF path \in DOMAIN fsys THEN Len(fsys[path]) ELSE 0

InitTrip ==
    /\ handles = <<>>
    /\ descs = <<>>
    /\ fsys = InitFiles
    /\ links = <<>>
    /\ mem \in TripMems
    /\ statbuf = <<>>
    /\ last = NoCall
    /\ isolation = FALSE
    /\ platform \in {"linux", "macos"}
    /\ overflow_checks = TRUE
    /\ guest \in {[pc |-> "open", B |-> <<>>, p |-> path, fd |-> -1, old |-> LenOf(path)] :
                      path \in Paths}

\* the guest's next call is `pc`; after it the guest is at `next`
Step(pc, next, out) ==
    /\ guest.pc = pc
    /\ Effect(out)
    /\ guest' = [guest EXCEPT !.pc = next]

TripOpen ==
    /\ guest.pc = "open"
    /\ Effect(open_outcome(guest.p, eval_libc_i32("O_WRONLY") \cup eval_libc_i32("O_CREAT"), ""))
    /\ guest' = [guest EXCEPT !.pc = "write", !.fd = last'.ret]

\* B is what the write took from the buffer
TripWrite ==
    \E count \in TripCounts :
        /\ guest.pc = "write"
        /\ Effect(write_outcome(guest.fd, 0, count, count, ""))
        /\ guest' = [guest EXCEPT !.pc = "close",
                                  !.B = [i \in 1..Max(last'.ret, 0) |-> mem[i - 1]]]

TripClose == Step("close", "rename", close_outcome(guest.fd, ""))

TripRename == Step("rename", "reopen", rename_outcome(Some(guest.p), Some(Other(guest.p)), ""))

TripReopen ==
    /\ guest.pc = "reopen"
    /\ Effect(open_outcome(Other(guest.p), eval_libc_i32("O_RDONLY"), ""))
    /\ guest' = [guest EXCEPT !.pc = "clear", !.fd = last'.ret]

\* the guest zeroes its buffer: what it holds after the read, the read put there
TripClear ==
    /\ guest.pc = "clear"
    /\ ~Halted
    /\ mem' = [a \in DOMAIN mem |-> 0]
    /\ guest' = [guest EXCEPT !.pc = "read"]
    /\ UNCHANGED <<handles, descs, fsys, links, statbuf, last, isolation, platform,
                   overflow_checks>>

\* the bytes the host returns for a read of count bytes: all there are
FullRead(fd, count) ==
    IF fd \in DOMAIN handles
    THEN CHOOSE n \in ReadLens(handles[fd].file, count) :
             \A m \in ReadLens(handles[fd].file, count) : m <= n
    ELSE 0

TripRead ==
    \E count \in TripCounts :
        /\ count >= Len(guest.B)
        /\ Step("read", "done", read_outcome(guest.fd, 0, count, FullRead(guest.fd, count), ""))

NextTrip ==
    TripOpen \/ TripWrite \/ TripClose \/ TripRename \/ TripReopen \/ TripClear \/ TripRead

SpecTrip == InitTrip /\ [][NextTrip]_vars

\* the read returned |B| and the buffer starts with B
ReadBack ==
    /\ last.op = "read" /\ last.kind = "ok"
    /\ last.ret = Len(guest.B)
    /\ \A i \in 1..Len(guest.B) : mem[i - 1] = guest.B[i]

\* C22 as stated: with a non-failing host, open(p, O_WRONLY|O_CREAT), write
\* bytes B, close, rename(p, q), open(q, O_RDONLY), then read with count >=
\* |B| returns |B| and places exactly B in the guest buffer.
C22_RoundTrip == guest.pc = "done" => ReadBack

\* C22, amended: the same round trip returns |B| and places exactly B in the
\* guest buffer when p named no file longer than B before the open (a new
\* file in particular) and the host transfers every byte it is asked for.
C22_RoundTripOfNewFile == guest.pc = "done" /\ guest.old <= Len(guest.B) => ReadBack

\* the trip of a new file "b" with two different bytes, read back from "a"
C22_Witness ==
    /\ guest.pc = "done" /\ guest.p = "b" /\ guest.old = 0
    /\ guest.B = <<7, 8>>
    /\ last.op = "read" /\ last.ret = 2
    /\ mem[0] = 7 /\ mem[1] = 8
    /\ "b" \notin DOMAIN fsys


====
